---- MODULE Spec2Model ----
(***************************************************************************)
(* Model of the dicey roll pipeline: RollSpec::dyn_roll and the pieces it  *)
(* calls (ModifiedRollBatch::new, PerRollModifier::apply, roll_until,      *)
(* KeepOrDrop::apply / keep_low, limit_dice, Aggregator::total).           *)
(*                                                                         *)
(* One behaviour is one call of RollSpec::dyn_roll on one RollSpec against *)
(* one randomness source.  Every draw from the source is one step, so the  *)
(* collections the code grows (the initial batch, `modified`, `new_rolls`) *)
(* are visible at every length they take.                                  *)
(***************************************************************************)
EXTENDS Integers, Sequences, FiniteSets, TLC

VARIABLES
    spec,       \* the RollSpec being rolled: dice, number_of_dice, modifiers, aggregator
    pc,         \* position inside dyn_roll
    rolls,      \* dyn_roll: rolls.rolls, the current batch
    history,    \* dyn_roll: history, one (modifier, ModifiedRollBatch) per finished stage
    modified,   \* ModifiedRollBatch::new: the Vec `modified` of the stage in progress
    roll,       \* roll_until: the local `roll`
    new_rolls,  \* roll_until: the local `new_rolls`
    drawn,      \* every value the dice kind has produced from the source in this call, in order
    result,     \* what dyn_roll returned (kind "none" while it runs)
    source,     \* DiceRollSource: every roll_single_die(sides) answered so far, in order
    input,      \* the text handed to Command::parse_with_variables
    variables,  \* the variable map handed to it
    command,    \* what it returned
    shown,      \* format!("{command}")
    reparsed,   \* Command::parse of that string
    reshown,    \* format!("{reparsed}")
    cpc,        \* position inside Command::roll_with_source
    frames,     \* the expression_roll calls in progress, innermost last
    values,     \* the evaluated operands the calls in progress hold
    expressions,\* roll_with_source: the results collected so far
    evaluated,  \* what roll_with_source returned (kind "none" while it runs)
    earlier     \* the roll of this command made before the one in progress (kind "none" if none)

roll_vars == <<spec, pc, rolls, history, modified, roll, new_rolls, drawn, result>>

parse_vars == <<input, variables, command, shown, reparsed, reshown>>

command_vars == <<cpc, frames, values, expressions, evaluated>>

\* what a step inside dyn_roll never touches
outer == <<parse_vars, command_vars, earlier>>

vars == <<roll_vars, source, parse_vars, command_vars, earlier>>

----------------------------------------------------------------------------
(* Bounds of the exploration.                                              *)

\* dice_expression.rs:376 sets MAX_NUMBER_OF_DICE to 5_000.  The model keeps
\* every comparison against it as the code writes it and explores a small
\* value, so that collections can reach and pass the limit.
MAX_NUMBER_OF_DICE == 3

\* largest number_of_dice of the RollSpecs rolled through reroll and explode
\* stages (parse_dice admits every count up to the limit)
MaxCount == 2

\* u32::MAX and usize::MAX: the widths of the sides / threshold type and of
\* the count type.  The model keeps their order (dice limit < u32 < usize)
\* and explores small values, so that literals can overflow each of them.
U32Max == 4

\* i64::MAX, the width of an integer literal
I64Max == 5

UsizeMax == 6

\* f64::MAX: a float literal of greater magnitude parses to infinity
F64Max == 7

\* largest number a digit string of the input denotes
MaxLiteral == 8

----------------------------------------------------------------------------
(* Dice kinds: dice_kind/basic.rs, dice_kind/fudge.rs                      *)

BasicDice(n) == [kind |-> "Basic", sides |-> n]

Fudge == [kind |-> "Fudge", sides |-> 3]

dice_max(dice) == IF dice.kind = "Basic" THEN dice.sides ELSE 1

dice_min(dice) == IF dice.kind = "Basic" THEN 1 ELSE -1

\* FudgeRoll::new subtracting 1 from the draw
dice_roll_fudge_from_zero(dice, value) == IF dice.kind = "Basic" THEN value ELSE value - 1

\* `value` is what DiceRollSource::roll_single_die(sides) returned
dice_roll(dice, value) == IF dice.kind = "Basic" THEN value ELSE value - 2

\* one answered call of DiceRollSource::roll_single_die
Draw(sides, value) == [sides |-> sides, value |-> value]

----------------------------------------------------------------------------
(* Errors: error.rs.  A ParamError carries its message; the numbers the    *)
(* message formats are kept in args.                                       *)

ParamError(text, args) == [kind |-> "ParamError", text |-> text, args |-> args]

Err(e) == [kind |-> "Err", error |-> e]

\* the limit test let one more through
limit_dice_exceeded_late(number_of_dice) == number_of_dice > MAX_NUMBER_OF_DICE + 1

\* limit_dice: `if number_of_dice > MAX_NUMBER_OF_DICE`
limit_dice_exceeded(number_of_dice) == number_of_dice > MAX_NUMBER_OF_DICE

limit_dice(number_of_dice, during) ==
    IF limit_dice_exceeded(number_of_dice)
    THEN [ok |-> FALSE,
          error |-> ParamError("Exceed maximum allowed number of dice during " \o during,
                               <<MAX_NUMBER_OF_DICE>>)]
    ELSE [ok |-> TRUE]

----------------------------------------------------------------------------
(* ModifiedRoll and its after() projection: dice_expression.rs:34-144      *)

ModifiedRoll(before, modifier, items) ==
    [before |-> before, modifier |-> modifier, items |-> items]

\* after() with a rerolled die still counted next to its replacement
after_reroll_keeps_before(m) ==
    CASE m.modifier = "None"    -> <<m.before>>
      [] m.modifier = "Drop"    -> <<>>
      [] m.modifier = "Reroll"  -> IF m.items = <<>> THEN <<m.before>>
                                   ELSE <<m.before, m.items[Len(m.items)]>>
      [] m.modifier = "Explode" -> <<m.before>> \o m.items

after(m) ==
    CASE m.modifier = "None"    -> <<m.before>>
      [] m.modifier = "Drop"    -> <<>>
      [] m.modifier = "Reroll"  -> IF m.items = <<>> THEN <<m.before>>
                                   ELSE <<m.items[Len(m.items)]>>
      [] m.modifier = "Explode" -> <<m.before>> \o m.items

\* ModifiedRollBatch::after collecting the dice from the last to the first
RECURSIVE batch_after_reversed(_)
batch_after_reversed(ms) ==
    IF ms = <<>> THEN <<>> ELSE batch_after_reversed(Tail(ms)) \o after(Head(ms))

\* ModifiedRollBatch::after: flat_map of after() over the rolls
RECURSIVE batch_after(_)
batch_after(ms) ==
    IF ms = <<>> THEN <<>> ELSE after(Head(ms)) \o batch_after(Tail(ms))

----------------------------------------------------------------------------
(* Keep / drop: keep_or_drop.rs                                            *)

\* a sort that leaves equal keys in the opposite of their original order
sort_by_key_unstable(s, c) ==
    LET rank(i) == 1 + Cardinality({j \in DOMAIN s :
                        \/ s[j][c] < s[i][c]
                        \/ s[j][c] = s[i][c] /\ j > i})
    IN  [p \in DOMAIN s |-> s[CHOOSE i \in DOMAIN s : rank(i) = p]]

\* slice::sort_by_key, a stable sort: equal keys keep their original order.
\* c is the tuple component the key closure selects.
sort_by_key(s, c) ==
    LET rank(i) == 1 + Cardinality({j \in DOMAIN s :
                        \/ s[j][c] < s[i][c]
                        \/ s[j][c] = s[i][c] /\ j < i})
    IN  [p \in DOMAIN s |-> s[CHOOSE i \in DOMAIN s : rank(i) = p]]

\* the key closure: get_number(result) or std::cmp::Reverse(get_number(result))
sort_key(value, reverse) == IF reverse THEN 0 - value ELSE value

\* keep_low with the flag test written `i <= to_keep`
keep_low_off_by_one(v, to_keep, reverse) ==
    IF to_keep > Len(v)
    THEN [ok |-> FALSE, error |-> ParamError("Not enough dice to keep or drop", <<>>)]
    ELSE
      LET keys == sort_by_key([i \in DOMAIN v |-> <<sort_key(v[i], reverse), i>>], 1)
          flagged_indexes ==
              sort_by_key([i \in DOMAIN keys |-> <<(i - 1) <= to_keep, keys[i][2]>>], 2)
      IN  [ok |-> TRUE,
           value |-> [i \in DOMAIN flagged_indexes |->
                        <<flagged_indexes[i][1], v[flagged_indexes[i][2]]>>]]

keep_low(v, to_keep, reverse) ==
    IF to_keep > Len(v)
    THEN [ok |-> FALSE, error |-> ParamError("Not enough dice to keep or drop", <<>>)]
    ELSE
      LET keys == sort_by_key([i \in DOMAIN v |-> <<sort_key(v[i], reverse), i>>], 1)
          \* enumerate() counts from 0: position i of the sequence is index i - 1
          flagged_indexes ==
              sort_by_key([i \in DOMAIN keys |-> <<(i - 1) < to_keep, keys[i][2]>>], 2)
      IN  [ok |-> TRUE,
           value |-> [i \in DOMAIN flagged_indexes |->
                        <<flagged_indexes[i][1], v[flagged_indexes[i][2]]>>]]

KeepOrDropKinds == {"KeepHi", "KeepLo", "DropHi", "DropLo"}

cannot_drop(n, len) ==
    [ok |-> FALSE,
     error |-> ParamError("Cannot drop n dice when there are only len", <<n, len>>)]

\* KeepOrDrop::apply with the drops' checked_sub written as saturating_sub
keep_or_drop_apply_saturating(op, v) ==
    CASE op.type = "KeepHi" -> keep_low(v, op.n, TRUE)
      [] op.type = "KeepLo" -> keep_low(v, op.n, FALSE)
      [] op.type = "DropHi" -> keep_low(v, IF op.n > Len(v) THEN 0 ELSE Len(v) - op.n, FALSE)
      [] op.type = "DropLo" -> keep_low(v, IF op.n > Len(v) THEN 0 ELSE Len(v) - op.n, TRUE)

\* KeepOrDrop::apply
keep_or_drop_apply(op, v) ==
    CASE op.type = "KeepHi" -> keep_low(v, op.n, TRUE)
      [] op.type = "KeepLo" -> keep_low(v, op.n, FALSE)
      [] op.type = "DropHi" -> IF op.n > Len(v) THEN cannot_drop(op.n, Len(v))
                               ELSE keep_low(v, Len(v) - op.n, FALSE)
      [] op.type = "DropLo" -> IF op.n > Len(v) THEN cannot_drop(op.n, Len(v))
                               ELSE keep_low(v, Len(v) - op.n, TRUE)

\* RollBatch::keep_or_drop
keep_or_drop(batch, op) ==
    LET flagged == keep_or_drop_apply(op, batch)
    IN  IF ~flagged.ok THEN flagged
        ELSE [ok |-> TRUE,
              value |-> [i \in DOMAIN flagged.value |->
                  ModifiedRoll(flagged.value[i][2],
                               IF flagged.value[i][1] THEN "None" ELSE "Drop",
                               <<>>)]]

----------------------------------------------------------------------------
(* Per-roll modifiers: PerRollModifier::apply, roll_until                  *)

PerRollKinds == {"RerollOnce", "RerollUnlimited", "ExplodeOnce", "ExplodeUnlimited"}

\* the `return Err(...)` branches of RerollUnlimited and ExplodeUnlimited
unlimited_rejected(dice, op) ==
    \/ op.type = "RerollUnlimited" /\ op.n >= dice_max(dice)
    \/ op.type = "ExplodeUnlimited" /\ op.n <= dice_min(dice)

unlimited_error(dice, op) ==
    IF op.type = "RerollUnlimited"
    THEN ParamError("Cannot infinitely reroll dice of n or lower since the maximum roll is max",
                    <<op.n, dice_max(dice)>>)
    ELSE ParamError("Cannot infinitely explode dice of n or higher since the minimum roll is min",
                    <<op.n, dice_min(dice)>>)

\* the reroll closure written `next >= *n`
end_condition_reroll_inclusive(op, next) ==
    IF op.type = "RerollUnlimited" THEN next >= op.n ELSE next < op.n

\* the explode closure written `next <= *n`
end_condition_explode_inclusive(op, next) ==
    IF op.type = "RerollUnlimited" THEN next > op.n ELSE next <= op.n

\* the closures handed to roll_until: |next| next > *n and |next| next < *n
end_condition(op, next) ==
    IF op.type = "RerollUnlimited" THEN next > op.n ELSE next < op.n

\* the tests of RerollOnce and ExplodeOnce written as strict comparisons
once_applies_strict(op, r) ==
    IF op.type = "RerollOnce" THEN r < op.n ELSE r > op.n

\* the tests of RerollOnce and ExplodeOnce
once_applies(op, r) ==
    IF op.type = "RerollOnce" THEN r <= op.n ELSE r >= op.n

modifier_of(op) ==
    IF op.type \in {"RerollOnce", "RerollUnlimited"} THEN "Reroll" ELSE "Explode"

----------------------------------------------------------------------------
(* Aggregator: dice_expression.rs:492-540                                  *)

None == [some |-> FALSE, value |-> 0]

Some(x) == [some |-> TRUE, value |-> x]

Sum == [type |-> "Sum", t |-> None, f |-> None, d |-> None, items |-> {}]

TargetFailureDouble(t, f, d) ==
    [type |-> "TargetFailureDouble", t |-> t, f |-> f, d |-> d, items |-> {}]

TargetEnum(items) ==
    [type |-> "TargetEnum", t |-> None, f |-> None, d |-> None, items |-> items]

\* apply_single with the target tested before the double target
apply_single_target_first(aggregator, r) ==
    CASE aggregator.type = "TargetFailureDouble" ->
            IF aggregator.t.some /\ r >= aggregator.t.value THEN 1
            ELSE IF aggregator.d.some /\ r >= aggregator.d.value THEN 2
            ELSE IF aggregator.f.some /\ r <= aggregator.f.value THEN -1
            ELSE 0
      [] aggregator.type = "TargetEnum" -> IF r \in aggregator.items THEN 1 ELSE 0
      [] aggregator.type = "Sum" -> r

apply_single(aggregator, r) ==
    CASE aggregator.type = "TargetFailureDouble" ->
            IF aggregator.d.some /\ r >= aggregator.d.value THEN 2
            ELSE IF aggregator.t.some /\ r >= aggregator.t.value THEN 1
            ELSE IF aggregator.f.some /\ r <= aggregator.f.value THEN -1
            ELSE 0
      [] aggregator.type = "TargetEnum" -> IF r \in aggregator.items THEN 1 ELSE 0
      [] aggregator.type = "Sum" -> r

RECURSIVE total(_, _)
total(aggregator, rs) ==
    IF rs = <<>> THEN 0
    ELSE total(aggregator, SubSeq(rs, 1, Len(rs) - 1)) + apply_single(aggregator, rs[Len(rs)])

----------------------------------------------------------------------------
(* The RollSpecs explored.  parse_dice_inner builds a RollSpec from any    *)
(* list of modifiers and any aggregator; parse_dice admits number_of_dice  *)
(* up to the dice limit; thresholds have the roll type of the dice kind    *)
(* (u32 for BasicDice, -1..1 for Fudge: FudgeRoll::from_str).              *)

Thresholds(dice) ==
    IF dice.kind = "Basic" THEN 0 .. (dice.sides + 1) ELSE -1 .. 1

KeepOrDrops == [type : KeepOrDropKinds, n : 0 .. (MaxCount + 1)]

PerRollModifiers(dice) == [type : PerRollKinds, n : Thresholds(dice)]

Modifiers(dice) == KeepOrDrops \cup PerRollModifiers(dice)

\* modifier lists of zero, one and two stages
ModifierLists(dice) ==
    {<<>>} \cup {<<m>> : m \in Modifiers(dice)}
           \cup {<<m1, m2>> : m1 \in Modifiers(dice), m2 \in Modifiers(dice)}

\* modifier lists of zero stages and one stage
ShortModifierLists(dice) == {<<>>} \cup {<<m>> : m \in Modifiers(dice)}

is_keep_or_drop(op) == op.type \in KeepOrDropKinds

RollSpec(dice, number_of_dice, modifiers, aggregator) ==
    [dice |-> dice, number_of_dice |-> number_of_dice,
     modifiers |-> modifiers, aggregator |-> aggregator]

\* dyn_roll is called on its own: nothing is parsed and no Command is rolled
NoCommand ==
    /\ input = [kind |-> "none"]
    /\ variables = <<>>
    /\ command = [kind |-> "none"]
    /\ shown = [kind |-> "none"]
    /\ reparsed = [kind |-> "none"]
    /\ reshown = [kind |-> "none"]
    /\ cpc = "none"
    /\ frames = <<>>
    /\ values = <<>>
    /\ expressions = <<>>
    /\ evaluated = [kind |-> "none"]
    /\ earlier = [kind |-> "none"]

\* the state dyn_roll starts from
Start(s) ==
    /\ limit_dice(s.number_of_dice, "parse").ok
    /\ spec = s
    /\ pc = "initial"
    /\ rolls = <<>>
    /\ history = <<>>
    /\ modified = <<>>
    /\ roll = 0
    /\ new_rolls = <<>>
    /\ drawn = <<>>
    /\ result = [kind |-> "none"]
    /\ source = <<>>
    /\ NoCommand

\* Every one- and two-sided basic die with up to two stages, and Fudge dice
\* (three faces) with up to one stage; the aggregator is the default Sum.
Init ==
    \E number_of_dice \in 0 .. MaxCount :
        \/ \E dice \in {BasicDice(1), BasicDice(2)} :
              \E modifiers \in ModifierLists(dice) :
                  Start(RollSpec(dice, number_of_dice, modifiers, Sum))
        \/ \E modifiers \in ShortModifierLists(Fudge) :
              Start(RollSpec(Fudge, number_of_dice, modifiers, Sum))

----------------------------------------------------------------------------
(* RollSpec::dyn_roll, dice_expression.rs:389-413                          *)

\* the modifier the `for modifier in &self.modifiers` loop is at
stage == Len(history) + 1

Ok(t) == [kind |-> "Ok", total |-> t, history |-> history, final_rolls |-> rolls]

\* lines 391-396: one `self.dice.roll(rng)` of the initial batch
RollInitial ==
    /\ pc = "initial"
    /\ Len(rolls) < spec.number_of_dice
    /\ \E value \in 1 .. spec.dice.sides :
          /\ rolls' = Append(rolls, dice_roll(spec.dice, value))
          /\ drawn' = Append(drawn, dice_roll(spec.dice, value))
          /\ source' = Append(source, Draw(spec.dice.sides, value))
    /\ UNCHANGED <<spec, pc, history, modified, roll, new_rolls, result>>
    /\ UNCHANGED outer

\* line 398: the initial batch is complete, the loop over the modifiers starts
InitialDone ==
    /\ pc = "initial"
    /\ Len(rolls) = spec.number_of_dice
    /\ pc' = "modifiers"
    /\ UNCHANGED <<spec, rolls, history, modified, roll, new_rolls, drawn, result>>
    /\ UNCHANGED <<source, outer>>

\* StageEnd without `rolls.rolls = next.after()`: the next stage sees the old batch
StageEndKeepsBatch(next) ==
    /\ rolls' = rolls
    /\ history' = Append(history, [modifier |-> spec.modifiers[Len(history) + 1],
                                    rolls |-> next])
    /\ pc' = "modifiers"
    /\ result' = result

\* lines 401-404 after ModifiedRollBatch::new returned `next`:
\* rolls.rolls = next.after(); limit_dice(...)?; history.push(...)
StageEnd(next) ==
    /\ rolls' = batch_after(next)
    /\ LET checked == limit_dice(Len(batch_after(next)), "batch aggregation")
       IN  IF checked.ok
           THEN /\ history' = Append(history, [modifier |-> spec.modifiers[stage],
                                               rolls |-> next])
                /\ pc' = "modifiers"
                /\ result' = result
           ELSE /\ history' = history
                /\ pc' = "done"
                /\ result' = Err(checked.error)

\* a KeepOrDrop stage: ModifiedRollBatch::new calls batch.keep_or_drop(op)?
ApplyKeepOrDrop ==
    /\ pc = "modifiers"
    /\ stage <= Len(spec.modifiers)
    /\ is_keep_or_drop(spec.modifiers[stage])
    /\ LET next == keep_or_drop(rolls, spec.modifiers[stage])
       IN  IF next.ok
           THEN StageEnd(next.value)
           ELSE /\ result' = Err(next.error)
                /\ pc' = "done"
                /\ UNCHANGED <<rolls, history>>
    /\ UNCHANGED <<spec, modified, roll, new_rolls, drawn>>
    /\ UNCHANGED <<source, outer>>

\* a PerRollModifier stage starts: `let mut modified = vec![]`
BeginPerRoll ==
    /\ pc = "modifiers"
    /\ stage <= Len(spec.modifiers)
    /\ ~is_keep_or_drop(spec.modifiers[stage])
    /\ modified' = <<>>
    /\ pc' = "per_roll"
    /\ UNCHANGED <<spec, rolls, history, roll, new_rolls, drawn, result>>
    /\ UNCHANGED <<source, outer>>

\* the loop of ModifiedRollBatch::new walking the batch from its last die
before_from_the_end == rolls[Len(rolls) - Len(modified)]

\* the die `for before in &batch.rolls` is at
before == rolls[Len(modified) + 1]

\* RerollOnce / ExplodeOnce on one die: at most one draw
ApplyOnce ==
    /\ pc = "per_roll"
    /\ Len(modified) < Len(rolls)
    /\ spec.modifiers[stage].type \in {"RerollOnce", "ExplodeOnce"}
    /\ IF once_applies(spec.modifiers[stage], before)
       THEN \E value \in 1 .. spec.dice.sides :
               /\ modified' = Append(modified,
                     ModifiedRoll(before, modifier_of(spec.modifiers[stage]),
                                  <<dice_roll(spec.dice, value)>>))
               /\ drawn' = Append(drawn, dice_roll(spec.dice, value))
               /\ source' = Append(source, Draw(spec.dice.sides, value))
       ELSE /\ modified' = Append(modified, ModifiedRoll(before, "None", <<>>))
            /\ drawn' = drawn
            /\ source' = source
    /\ UNCHANGED <<spec, pc, rolls, history, roll, new_rolls, result>>
    /\ UNCHANGED outer

\* RerollUnlimited / ExplodeUnlimited on one die whose threshold cannot end
RejectUnlimited ==
    /\ pc = "per_roll"
    /\ Len(modified) < Len(rolls)
    /\ spec.modifiers[stage].type \in {"RerollUnlimited", "ExplodeUnlimited"}
    /\ unlimited_rejected(spec.dice, spec.modifiers[stage])
    /\ result' = Err(unlimited_error(spec.dice, spec.modifiers[stage]))
    /\ pc' = "done"
    /\ UNCHANGED <<spec, rolls, history, modified, roll, new_rolls, drawn>>
    /\ UNCHANGED <<source, outer>>

\* RerollUnlimited / ExplodeUnlimited on one die: roll_until is entered
BeginRollUntil ==
    /\ pc = "per_roll"
    /\ Len(modified) < Len(rolls)
    /\ spec.modifiers[stage].type \in {"RerollUnlimited", "ExplodeUnlimited"}
    /\ ~unlimited_rejected(spec.dice, spec.modifiers[stage])
    /\ roll' = before
    /\ new_rolls' = <<>>
    /\ pc' = "roll_until"
    /\ UNCHANGED <<spec, rolls, history, modified, drawn, result>>
    /\ UNCHANGED <<source, outer>>

\* RollUntilReturn without the caller's `if !new_rolls.is_empty()`: the
\* record is built from whatever roll_until returned
RollUntilReturnAlwaysRecords ==
    /\ pc = "roll_until"
    /\ end_condition(spec.modifiers[stage], roll)
    /\ modified' = Append(modified,
          ModifiedRoll(before, modifier_of(spec.modifiers[stage]), new_rolls))
    /\ new_rolls' = <<>>
    /\ roll' = 0
    /\ pc' = "per_roll"
    /\ UNCHANGED <<spec, rolls, history, drawn, result>>
    /\ UNCHANGED <<source, outer>>

\* roll_until: `if end_condition(roll) { return Ok(new_rolls) }`, and the
\* caller's `if !new_rolls.is_empty()` that builds the ModifiedRoll
RollUntilReturn ==
    /\ pc = "roll_until"
    /\ end_condition(spec.modifiers[stage], roll)
    /\ modified' = Append(modified,
          IF new_rolls # <<>>
          THEN ModifiedRoll(before, modifier_of(spec.modifiers[stage]), new_rolls)
          ELSE ModifiedRoll(before, "None", <<>>))
    /\ new_rolls' = <<>>
    /\ roll' = 0
    /\ pc' = "per_roll"
    /\ UNCHANGED <<spec, rolls, history, drawn, result>>
    /\ UNCHANGED <<source, outer>>

\* roll_until: `limit_dice(new_rolls.len(), "rerolls")?` fails
RollUntilLimit ==
    /\ pc = "roll_until"
    /\ ~end_condition(spec.modifiers[stage], roll)
    /\ ~limit_dice(Len(new_rolls), "rerolls").ok
    /\ result' = Err(limit_dice(Len(new_rolls), "rerolls").error)
    /\ pc' = "done"
    /\ UNCHANGED <<spec, rolls, history, modified, roll, new_rolls, drawn>>
    /\ UNCHANGED <<source, outer>>

\* roll_until: `roll = dice.roll(rng); new_rolls.push(roll)`
RollUntilDraw ==
    /\ pc = "roll_until"
    /\ ~end_condition(spec.modifiers[stage], roll)
    /\ limit_dice(Len(new_rolls), "rerolls").ok
    /\ \E value \in 1 .. spec.dice.sides :
          /\ roll' = dice_roll(spec.dice, value)
          /\ new_rolls' = Append(new_rolls, dice_roll(spec.dice, value))
          /\ drawn' = Append(drawn, dice_roll(spec.dice, value))
          /\ source' = Append(source, Draw(spec.dice.sides, value))
    /\ UNCHANGED <<spec, pc, rolls, history, modified, result>>
    /\ UNCHANGED outer

\* the PerRollModifier loop is over: ModifiedRollBatch::new returns
EndPerRoll ==
    /\ pc = "per_roll"
    /\ Len(modified) = Len(rolls)
    /\ StageEnd(modified)
    /\ modified' = <<>>
    /\ UNCHANGED <<spec, roll, new_rolls, drawn>>
    /\ UNCHANGED <<source, outer>>

\* lines 407-411: every modifier is applied, the aggregator totals the batch
Finish ==
    /\ pc = "modifiers"
    /\ stage > Len(spec.modifiers)
    /\ result' = Ok(total(spec.aggregator, rolls))
    /\ pc' = "done"
    /\ UNCHANGED <<spec, rolls, history, modified, roll, new_rolls, drawn>>
    /\ UNCHANGED <<source, outer>>

Next ==
    \/ RollInitial
    \/ InitialDone
    \/ ApplyKeepOrDrop
    \/ BeginPerRoll
    \/ ApplyOnce
    \/ RejectUnlimited
    \/ BeginRollUntil
    \/ RollUntilReturn
    \/ RollUntilLimit
    \/ RollUntilDraw
    \/ EndPerRoll
    \/ Finish

Spec == Init /\ [][Next]_vars

----------------------------------------------------------------------------
(* Rolls of modifier-free RollSpecs under every aggregator: what           *)
(* Aggregator::total makes of a batch.                                     *)

OptionalThresholds(dice) == {None} \cup {Some(x) : x \in Thresholds(dice)}

Aggregators(dice) ==
    {Sum}
    \cup {TargetFailureDouble(t, f, d) : t \in OptionalThresholds(dice),
                                         f \in OptionalThresholds(dice),
                                         d \in OptionalThresholds(dice)}
    \cup {TargetEnum(items) : items \in SUBSET (dice_min(dice) .. dice_max(dice))}

InitAggregate ==
    \E dice \in {BasicDice(2), BasicDice(3), Fudge}, number_of_dice \in 0 .. MaxCount :
        \E aggregator \in Aggregators(dice) :
            Start(RollSpec(dice, number_of_dice, <<>>, aggregator))

NextAggregate == RollInitial \/ InitialDone \/ Finish

SpecAggregate == InitAggregate /\ [][NextAggregate]_vars

----------------------------------------------------------------------------
(* Rolls of RollSpecs whose only stage is a KeepOrDrop: what               *)
(* KeepOrDrop::apply makes of every batch up to the dice limit.            *)

InitKeepOrDrop ==
    \E dice \in {BasicDice(2), BasicDice(3), Fudge},
       number_of_dice \in 0 .. MAX_NUMBER_OF_DICE :
        \E op \in KeepOrDrops :
            Start(RollSpec(dice, number_of_dice, <<op>>, Sum))

NextKeepOrDrop == RollInitial \/ InitialDone \/ ApplyKeepOrDrop \/ Finish

SpecKeepOrDrop == InitKeepOrDrop /\ [][NextKeepOrDrop]_vars

----------------------------------------------------------------------------
(* Rolls of one-stage RollSpecs of up to two dice under Sum and under      *)
(* every TargetEnum: what the aggregator makes of a batch that a modifier  *)
(* has changed.                                                            *)

TargetEnums(dice) == {TargetEnum(items) : items \in SUBSET (dice_min(dice) .. dice_max(dice))}

InitTotal ==
    \E dice \in {BasicDice(2), Fudge}, number_of_dice \in 0 .. 2 :
        \E modifiers \in ShortModifierLists(dice), aggregator \in {Sum} \cup TargetEnums(dice) :
            Start(RollSpec(dice, number_of_dice, modifiers, aggregator))

SpecTotal == InitTotal /\ [][Next]_vars

----------------------------------------------------------------------------
(* Rolls of up to two two-sided dice through up to two stages and of up to *)
(* two Fudge dice through up to one: every record a per-roll modifier can  *)
(* write for a die, every order two dice can be drawn in, and every text   *)
(* format_history can give for no stage, one stage and two.                *)

InitTwoDice ==
    \E number_of_dice \in 0 .. 2 :
        \/ \E modifiers \in ModifierLists(BasicDice(2)) :
              Start(RollSpec(BasicDice(2), number_of_dice, modifiers, Sum))
        \/ \E modifiers \in ShortModifierLists(Fudge) :
              Start(RollSpec(Fudge, number_of_dice, modifiers, Sum))

SpecTwoDice == InitTwoDice /\ [][Next]_vars

----------------------------------------------------------------------------
(* Numeric literals and their FromStr conversions.  A literal is the text  *)
(* of one number / fudge_value pair: a digit string (kept as the number it *)
(* denotes) or one of the Fudge forms "(+)", "( )", "(-)".                 *)

Digits(n) == [form |-> "digits", n |-> n]

FudgeValue(n) == [form |-> "fudge_value", n |-> n]

\* RollError::ParseError; text is the message of the wrapped cause
ParseError(text) == [kind |-> "ParseError", text |-> text, args |-> <<>>]

InvalidDigit == "invalid digit found in string"

PosOverflow == "number too large to fit in target type"

Zero == "number would be zero for non-zero type"

Failure(e) == [ok |-> FALSE, error |-> e]

Success(v) == [ok |-> TRUE, value |-> v]

\* str::parse::<usize>
parse_usize(lit) ==
    IF lit.form # "digits" THEN Failure(ParseError(InvalidDigit))
    ELSE IF lit.n > UsizeMax THEN Failure(ParseError(PosOverflow))
    ELSE Success(lit.n)

\* str::parse::<u32>, the Roll type of BasicDice
parse_u32(lit) ==
    IF lit.form # "digits" THEN Failure(ParseError(InvalidDigit))
    ELSE IF lit.n > U32Max THEN Failure(ParseError(PosOverflow))
    ELSE Success(lit.n)

\* NonZeroU32::from_str accepting a zero
parse_BasicDice_allows_zero(lit) ==
    IF lit.form # "digits" THEN Failure(ParseError(InvalidDigit))
    ELSE IF lit.n > U32Max THEN Failure(ParseError(PosOverflow))
    ELSE Success(BasicDice(lit.n))

\* str::parse::<BasicDice>: NonZeroU32::from_str
parse_BasicDice(lit) ==
    IF lit.form # "digits" THEN Failure(ParseError(InvalidDigit))
    ELSE IF lit.n > U32Max THEN Failure(ParseError(PosOverflow))
    ELSE IF lit.n = 0 THEN Failure(ParseError(Zero))
    ELSE Success(BasicDice(lit.n))

\* FudgeRoll::from_str: the three textual forms, else an i8 that must lie
\* in -1..1 (a digit string is never negative)
parse_FudgeRoll(lit) ==
    IF lit.form = "fudge_value" THEN Success(lit.n)
    ELSE IF lit.n > 1 THEN Failure(ParseError(PosOverflow))
    ELSE Success(lit.n)

\* str::parse::<Dice::Roll>
parse_Roll(dice, lit) ==
    IF dice.kind = "Basic" THEN parse_u32(lit) ELSE parse_FudgeRoll(lit)

----------------------------------------------------------------------------
(* parse_dice and parse_dice_inner: dice_expression.rs:542-692.  The input *)
(* is the Pairs of one `dice` rule: the optional number_of_dice literal,   *)
(* the sides literal or the fudge token, and the option pairs in source    *)
(* order.                                                                  *)

\* an option written without a value, a command written without a repeat or
\* without a reason
NoValue == [some |-> FALSE, value |-> [form |-> "none", n |-> 0]]

Option(rule, value) == [rule |-> rule, value |-> value, is_enum |-> FALSE, items |-> <<>>]

TargetEnumOption(items) ==
    [rule |-> "target", value |-> NoValue, is_enum |-> TRUE, items |-> items]

DicePairs(number_of_dice, sides, options) ==
    [rule |-> "dice", number_of_dice |-> number_of_dice, sides |-> sides, options |-> options]

FudgeToken == [form |-> "fudge", n |-> 0]

\* extract_option_value::<Dice::Roll>: Ok(None) when the option has no inner pair
extract_option_value(dice, option) ==
    IF ~option.value.some THEN Success(None)
    ELSE LET v == parse_Roll(dice, option.value.value)
         IN  IF v.ok THEN Success(Some(v.value)) ELSE v

\* extract_option_value::<usize>
extract_option_usize(option) ==
    IF ~option.value.some THEN Success(None)
    ELSE LET v == parse_usize(option.value.value)
         IN  IF v.ok THEN Success(Some(v.value)) ELSE v

unwrap_or(o, default) == IF o.some THEN o.value ELSE default

\* the locals `modifiers` and `aggregator` of parse_dice_inner
Locals(modifiers, aggregator) == [modifiers |-> modifiers, aggregator |-> aggregator]

push_modifier(st, type, n) ==
    Success(Locals(Append(st.modifiers, [type |-> type, n |-> n]), st.aggregator))

set_aggregator(st, a) == Success(Locals(st.modifiers, a))

\* lines 651-658: `aggregator = Aggregator::TargetEnum(HashSet::from_iter(..))`
target_enum_branch(st, items) == set_aggregator(st, TargetEnum(items))

\* lines 642-648: the match on the aggregator of the Rule::target arm
target_value_branch(st, value) ==
    LET a == st.aggregator
    IN  IF a.type = "TargetFailureDouble" /\ ~a.t.some
        THEN set_aggregator(st, TargetFailureDouble(Some(value), a.f, a.d))
        ELSE IF a.type = "Sum"
        THEN set_aggregator(st, TargetFailureDouble(Some(value), None, None))
        ELSE Failure(ParamError("Invalid targets 1", <<>>))

\* one iteration of the `while next_option.is_some()` loop, lines 593-684
parse_option(dice, st, option) ==
    LET value == extract_option_value(dice, option)
        count == extract_option_usize(option)
        a     == st.aggregator
    IN  CASE option.rule = "explode" ->
                IF ~value.ok THEN value
                ELSE push_modifier(st, "ExplodeOnce", unwrap_or(value.value, dice_max(dice)))
          [] option.rule = "i_explode" ->
                IF ~value.ok THEN value
                ELSE push_modifier(st, "ExplodeUnlimited", unwrap_or(value.value, dice_max(dice)))
          [] option.rule = "reroll" ->
                IF ~value.ok THEN value ELSE push_modifier(st, "RerollOnce", value.value.value)
          [] option.rule = "i_reroll" ->
                IF ~value.ok THEN value ELSE push_modifier(st, "RerollUnlimited", value.value.value)
          [] option.rule = "keep_hi" ->
                IF ~count.ok THEN count ELSE push_modifier(st, "KeepHi", count.value.value)
          [] option.rule = "keep_lo" ->
                IF ~count.ok THEN count ELSE push_modifier(st, "KeepLo", count.value.value)
          [] option.rule = "drop_hi" ->
                IF ~count.ok THEN count ELSE push_modifier(st, "DropHi", count.value.value)
          [] option.rule = "drop_lo" ->
                IF ~count.ok THEN count ELSE push_modifier(st, "DropLo", count.value.value)
          [] option.rule = "target" /\ ~option.is_enum ->
                IF ~value.ok THEN value ELSE target_value_branch(st, value.value.value)
          [] option.rule = "target" /\ option.is_enum ->
                LET numbers_list == [i \in DOMAIN option.items |->
                                        parse_Roll(dice, option.items[i])]
                    bad == {i \in DOMAIN numbers_list : ~numbers_list[i].ok}
                IN  IF bad # {}
                    THEN numbers_list[CHOOSE i \in bad : \A j \in bad : i <= j]
                    ELSE target_enum_branch(st,
                            {numbers_list[i].value : i \in DOMAIN numbers_list})
          [] option.rule = "double_target" ->
                IF ~value.ok THEN value
                ELSE IF a.type = "TargetFailureDouble" /\ ~a.d.some
                THEN set_aggregator(st, TargetFailureDouble(a.t, a.f, value.value))
                ELSE IF a.type = "Sum"
                THEN set_aggregator(st, TargetFailureDouble(None, None, value.value))
                ELSE Failure(ParamError("Invalid targets 2", <<>>))
          [] option.rule = "failure" ->
                IF ~value.ok THEN value
                ELSE IF a.type = "TargetFailureDouble" /\ ~a.f.some
                THEN set_aggregator(st, TargetFailureDouble(a.t, value.value, a.d))
                ELSE IF a.type = "Sum"
                THEN set_aggregator(st, TargetFailureDouble(None, value.value, None))
                ELSE Failure(ParamError("Invalid targets 3", <<>>))

\* the loop over the option pairs; `?` leaves it at the first error
RECURSIVE parse_options(_, _, _)
parse_options(dice, st, options) ==
    IF options = <<>> THEN Success(st)
    ELSE LET rest(next) ==
                 IF ~next.ok THEN next ELSE parse_options(dice, next.value, Tail(options))
         IN  rest(parse_option(dice, st, Head(options)))

parse_dice_inner(dice_parsed, number_of_dice, options) ==
    LET roll_spec(parsed) ==
            IF ~parsed.ok THEN parsed
            ELSE Success(RollSpec(dice_parsed, number_of_dice,
                                  parsed.value.modifiers, parsed.value.aggregator))
    IN  roll_spec(parse_options(dice_parsed, Locals(<<>>, Sum), options))

parse_dice(pairs) ==
    LET count == IF pairs.number_of_dice.some THEN parse_usize(pairs.number_of_dice.value)
                 ELSE Success(1)
        sides == IF pairs.sides = FudgeToken THEN Success(Fudge)
                 ELSE parse_BasicDice(pairs.sides)
    IN  IF ~count.ok THEN count
        ELSE IF ~limit_dice(count.value, "parse").ok
        THEN Failure(limit_dice(count.value, "parse").error)
        ELSE IF ~sides.ok THEN sides
        ELSE parse_dice_inner(sides.value, count.value, pairs.options)


----------------------------------------------------------------------------
(* f64 values.  A value is a sign bit with a class: a finite magnitude     *)
(* num/den in lowest terms, an infinity or a NaN.  Rounding is not         *)
(* modelled: the magnitudes explored are small rationals.                  *)

Finite(neg, num, den) == [class |-> "finite", neg |-> neg, num |-> num, den |-> den]

Infinity(neg) == [class |-> "inf", neg |-> neg, num |-> 0, den |-> 1]

NaN(neg) == [class |-> "nan", neg |-> neg, num |-> 0, den |-> 1]

RECURSIVE gcd(_, _)
gcd(a, b) == IF b = 0 THEN a ELSE gcd(b, a % b)

\* the finite value of sign `neg` and magnitude num/den, in lowest terms
Ratio(neg, num, den) ==
    LET g == gcd(num, den) IN Finite(neg, num \div g, den \div g)

\* `as f64` of an i64
f64_from_i64(i) == IF i < 0 THEN Finite(TRUE, 0 - i, 1) ELSE Finite(FALSE, i, 1)

\* f64::fract() == 0.0: false for an infinity and for a NaN, whose fract is NaN
fract_is_zero(x) == x.class = "finite" /\ x.den = 1

----------------------------------------------------------------------------
(* The text of a command.  A text is kept as the tokens the grammar reads: *)
(* an expression is the sequence primary (operator primary)*, a primary is *)
(* an integer, a float, a parenthesised expression, a dice term or a       *)
(* variable; a word is text no rule of the grammar matches.                *)

IntegerToken(neg, n) == [rule |-> "integer", neg |-> neg, n |-> n]

FloatToken(neg, n, frac) == [rule |-> "float", neg |-> neg, n |-> n, frac |-> frac]

BlockToken(inner) == [rule |-> "block_expr", inner |-> inner]

VariableToken(identifier) == [rule |-> "variable", identifier |-> identifier]

Word(w) == [rule |-> "word", word |-> w]

Operator(rule) == [rule |-> rule]

Operators == {"add", "sub", "mul", "div"}

RepeatToken(mode, count) == [mode |-> mode, count |-> count]

NoRepeatToken == [some |-> FALSE, value |-> RepeatToken("None", NoValue.value)]

NoReason == [some |-> FALSE, value |-> ""]

\* parenthesised is TRUE when the repeated expression is written ( expr )
CommandText(expr, parenthesised, repeat, reason) ==
    [expr |-> expr, parenthesised |-> parenthesised, repeat |-> repeat, reason |-> reason]

----------------------------------------------------------------------------
(* The grammar (dicey.pest): which texts the generated parser accepts.     *)

count_rules == {"keep_hi", "keep_lo", "drop_hi", "drop_lo"}

is_value(lit) == lit.form \in {"digits", "fudge_value"}

grammar_option(option) ==
    CASE option.rule \in {"explode", "i_explode"} ->
            ~option.value.some \/ is_value(option.value.value)
      [] option.rule \in {"reroll", "i_reroll", "double_target", "failure"} ->
            option.value.some /\ is_value(option.value.value)
      [] option.rule \in count_rules ->
            option.value.some /\ option.value.value.form = "digits"
      [] option.rule = "target" /\ ~option.is_enum ->
            option.value.some /\ is_value(option.value.value)
      [] option.rule = "target" /\ option.is_enum ->
            /\ option.items # <<>>
            /\ \A i \in DOMAIN option.items : is_value(option.items[i])
      [] OTHER -> FALSE

grammar_dice(pairs) ==
    /\ pairs.number_of_dice.some => pairs.number_of_dice.value.form = "digits"
    /\ pairs.sides.form \in {"digits", "fudge"}
    /\ \A i \in DOMAIN pairs.options : grammar_option(pairs.options[i])

RECURSIVE grammar_expr(_)
grammar_expr(expr) ==
    /\ Len(expr) % 2 = 1
    /\ \A i \in DOMAIN expr :
          IF i % 2 = 0 THEN expr[i].rule \in Operators
          ELSE CASE expr[i].rule \in {"integer", "float", "variable"} -> TRUE
                 [] expr[i].rule = "block_expr" -> grammar_expr(expr[i].inner)
                 [] expr[i].rule = "dice" -> grammar_dice(expr[i])
                 [] OTHER -> FALSE

\* command: a repeat follows a parenthesised expression only
grammar_command(t) ==
    /\ grammar_expr(t.expr)
    /\ t.parenthesised = t.repeat.some
    /\ t.repeat.some => t.repeat.value.count.form = "digits"

GrammarError == ParseError("grammar")

\* RollParser::parse(Rule::command, s): the pairs of the text, or the error
RollParser_parse(t) == IF grammar_command(t) THEN Success(t) ELSE Failure(GrammarError)

----------------------------------------------------------------------------
(* Expressions: expression.rs.                                             *)

Integer(i) == [type |-> "Integer", value |-> i]

RollableFloat(x) == [type |-> "RollableFloat", value |-> x]

BinaryExpression(left, op, right) ==
    [type |-> "BinaryExpression", left |-> left, op |-> op, right |-> right]

BlockExpression(inner) == [type |-> "BlockExpression", inner |-> inner]

VariableReference(identifier, inner) ==
    [type |-> "VariableReference", identifier |-> identifier, inner |-> inner]

\* an Expression that is a RollSpec
Dice(s) == [type |-> "RollSpec", spec |-> s]

BinaryOp(rule) ==
    CASE rule = "add" -> "Add" [] rule = "sub" -> "Sub"
      [] rule = "mul" -> "Mul" [] rule = "div" -> "Div"

NegOverflow == "number too small to fit in target type"

\* str::parse::<i64> of an optionally signed digit string
parse_i64(token) ==
    IF token.n > I64Max
    THEN Failure(ParseError(IF token.neg THEN NegOverflow ELSE PosOverflow))
    ELSE Success(IF token.neg THEN 0 - token.n ELSE token.n)

\* str::parse::<f64> of `digits . digits`: never an error; a magnitude
\* beyond f64::MAX gives an infinity.  frac is the digit after the point.
parse_f64(token) ==
    IF token.n > F64Max THEN Success(Infinity(token.neg))
    ELSE Success(Ratio(token.neg, 10 * token.n + token.frac, 10))

undefined_variable(identifier) ==
    ParamError("Reference to undefined variable \"identifier\"", <<identifier>>)

\* the operator the Pratt parser of parser.rs applies last: the rightmost
\* add / sub (lowest precedence, left associative), else the rightmost mul / div
split_at(expr) ==
    LET low  == {i \in DOMAIN expr : i % 2 = 0 /\ expr[i].rule \in {"add", "sub"}}
        high == {i \in DOMAIN expr : i % 2 = 0 /\ expr[i].rule \in {"mul", "div"}}
        last(S) == CHOOSE i \in S : \A j \in S : j <= i
    IN  IF low # {} THEN last(low) ELSE last(high)

\* the infix closure of parse_expression, lines 322-348
parse_infix(lhs, op, rhs) ==
    IF lhs.ok /\ rhs.ok
    THEN Success(BinaryExpression(lhs.value, BinaryOp(op.rule), rhs.value))
    ELSE IF ~lhs.ok THEN lhs ELSE rhs

RECURSIVE parse_expression(_, _)
RECURSIVE parse_primary(_, _)

\* the primary closure of parse_expression, lines 289-321
parse_primary(pair, bindings) ==
    CASE pair.rule = "integer" ->
            LET i == parse_i64(pair) IN IF i.ok THEN Success(Integer(i.value)) ELSE i
      [] pair.rule = "float" ->
            LET x == parse_f64(pair) IN IF x.ok THEN Success(RollableFloat(x.value)) ELSE x
      [] pair.rule = "block_expr" ->
            LET block(inner) ==
                    IF inner.ok THEN Success(BlockExpression(inner.value)) ELSE inner
            IN  block(parse_expression(pair.inner, bindings))
      [] pair.rule = "dice" ->
            LET dice(d) == IF d.ok THEN Success(Dice(d.value)) ELSE d
            IN  dice(parse_dice(pair))
      [] pair.rule = "variable" ->
            IF pair.identifier \in DOMAIN bindings
            THEN Success(VariableReference(pair.identifier, bindings[pair.identifier]))
            ELSE Failure(undefined_variable(pair.identifier))

\* parse_expression: climb(expr, primary, infix)
parse_expression(expr, bindings) ==
    IF Len(expr) = 1 THEN parse_primary(expr[1], bindings)
    ELSE LET at == split_at(expr)
         IN  parse_infix(parse_expression(SubSeq(expr, 1, at - 1), bindings),
                         expr[at],
                         parse_expression(SubSeq(expr, at + 1, Len(expr)), bindings))

----------------------------------------------------------------------------
(* Commands: command.rs.                                                   *)

RepeatedCommand(count, mode) == [count |-> count, mode |-> mode]

NoRepeat == [some |-> FALSE, value |-> RepeatedCommand(0, "None")]

Command(expression, repeat, reason) ==
    [expression |-> expression, repeat |-> repeat, reason |-> reason]

\* process_repeated_expr without the test for a count of 0
process_repeated_expr_allows_zero(pairs, bindings) ==
    LET count == parse_usize(pairs.repeat.value.count)
        repeated(c) ==
            IF ~c.ok THEN c
            ELSE Success(Command(c.value,
                                 Some(RepeatedCommand(count.value, pairs.repeat.value.mode)),
                                 NoReason))
    IN  IF ~count.ok THEN count
        ELSE IF ~limit_dice(count.value, "repeated roll count").ok
        THEN Failure(limit_dice(count.value, "repeated roll count").error)
        ELSE repeated(parse_expression(pairs.expr, bindings))

\* process_repeated_expr, lines 223-253
process_repeated_expr(pairs, bindings) ==
    LET count == parse_usize(pairs.repeat.value.count)
        repeated(c) ==
            IF ~c.ok THEN c
            ELSE Success(Command(c.value,
                                 Some(RepeatedCommand(count.value, pairs.repeat.value.mode)),
                                 NoReason))
    IN  IF ~count.ok THEN count
        ELSE IF count.value = 0
        THEN Failure(ParamError("Can't repeat 0 times or negatively", <<>>))
        ELSE IF ~limit_dice(count.value, "repeated roll count").ok
        THEN Failure(limit_dice(count.value, "repeated roll count").error)
        ELSE repeated(parse_expression(pairs.expr, bindings))

\* Command::parse_with_variables, lines 161-183
parse_with_variables(t, bindings) ==
    LET single(e) == IF e.ok THEN Success(Command(e.value, NoRepeat, NoReason)) ELSE e
        with_reason(parsed, reason) ==
            IF ~parsed.ok THEN parsed
            ELSE Success(Command(parsed.value.expression, parsed.value.repeat, reason))
        process(pairs) ==
            IF ~pairs.ok THEN pairs
            ELSE with_reason(IF pairs.value.repeat.some
                             THEN process_repeated_expr(pairs.value, bindings)
                             ELSE single(parse_expression(pairs.value.expr, bindings)),
                             pairs.value.reason)
    IN  process(RollParser_parse(t))


----------------------------------------------------------------------------
(* Command::parse_with_variables as one step, on texts of four shapes:     *)
(* dice terms with up to three options, dice terms of every count and      *)
(* sides, repeated commands of every count and mode, and expressions over  *)
(* variables.                                                              *)

\* no dyn_roll is in progress
NoRoll ==
    /\ spec = [kind |-> "none"]
    /\ pc = "idle"
    /\ rolls = <<>>
    /\ history = <<>>
    /\ modified = <<>>
    /\ roll = 0
    /\ new_rolls = <<>>
    /\ drawn = <<>>
    /\ result = [kind |-> "none"]

\* the state before Command::parse_with_variables(t, bindings)
StartParse(t, bindings) ==
    /\ NoRoll
    /\ source = <<>>
    /\ input = t
    /\ variables = bindings
    /\ command = [kind |-> "none"]
    /\ shown = [kind |-> "none"]
    /\ reparsed = [kind |-> "none"]
    /\ reshown = [kind |-> "none"]
    /\ cpc = "text"
    /\ frames = <<>>
    /\ values = <<>>
    /\ expressions = <<>>
    /\ evaluated = [kind |-> "none"]
    /\ earlier = [kind |-> "none"]

Parse ==
    /\ cpc = "text"
    /\ command' = parse_with_variables(input, variables)
    /\ cpc' = IF command'.ok THEN "parsed" ELSE "rejected"
    /\ UNCHANGED <<roll_vars, source, earlier, input, variables, shown, reparsed, reshown,
                   frames, values, expressions, evaluated>>

\* a command that is one expression, with no repeat and no reason
Single(expr) == CommandText(expr, FALSE, NoRepeatToken, NoReason)

Repeated(expr, mode, count) ==
    CommandText(expr, TRUE, Some(RepeatToken(mode, count)), NoReason)

RepeatedModes == {"None", "Sum", "Sort"}

Literals == {Digits(n) : n \in 0 .. MaxLiteral}

AggregatorOptions ==
    {Option(rule, Some(Digits(n))) : rule \in {"target", "double_target", "failure"},
                                     n \in 1 .. 2}
    \cup {TargetEnumOption(items) : items \in {<<Digits(1)>>, <<Digits(2)>>,
                                                <<Digits(2), Digits(1)>>}}

ModifierOptions ==
    {Option("keep_hi", Some(Digits(1))), Option("explode", NoValue),
     Option("reroll", Some(Digits(1)))}

OptionLists ==
    LET O == AggregatorOptions \cup ModifierOptions
    IN  {<<>>} \cup {<<a>> : a \in O} \cup {<<a, b>> : a \in O, b \in O}
               \cup {<<a, b, c>> : a \in AggregatorOptions, b \in O, c \in AggregatorOptions}

FudgeOptionLists ==
    LET O == {Option(rule, Some(FudgeValue(n))) :
                  rule \in {"target", "double_target", "failure"}, n \in {-1, 1}}
             \cup {TargetEnumOption(<<FudgeValue(0)>>), Option("i_explode", NoValue),
                   Option("failure", Some(Digits(1))), Option("target", Some(Digits(2)))}
    IN  {<<>>} \cup {<<a>> : a \in O} \cup {<<a, b>> : a \in O, b \in O}

InitParse ==
    \/ \E options \in OptionLists :
          StartParse(Single(<<DicePairs(Some(Digits(2)), Digits(2), options)>>), <<>>)
    \/ \E options \in FudgeOptionLists :
          StartParse(Single(<<DicePairs(NoValue, FudgeToken, options)>>), <<>>)
    \/ \E number_of_dice \in {NoValue} \cup {Some(l) : l \in Literals},
          sides \in Literals \cup {FudgeToken} :
          StartParse(Single(<<DicePairs(number_of_dice, sides, <<>>)>>), <<>>)
    \/ \E count \in Literals, mode \in RepeatedModes :
          \E expr \in {<<IntegerToken(FALSE, 1)>>,
                       <<DicePairs(NoValue, Digits(2), <<>>)>>,
                       <<DicePairs(NoValue, Digits(0), <<>>)>>,
                       <<IntegerToken(FALSE, 1), Operator("add"),
                         DicePairs(Some(Digits(MAX_NUMBER_OF_DICE + 1)), Digits(2), <<>>)>>} :
              StartParse(Repeated(expr, mode, count), <<>>)

SpecParse == InitParse /\ [][Parse]_vars


----------------------------------------------------------------------------
(* f64 arithmetic: BinaryOp::apply, expression.rs:56-64.  An operation     *)
(* gives the set of values the build can produce: one value, or a NaN of   *)
(* either sign (the sign bit of a computed NaN is not fixed by the         *)
(* language).  A magnitude above f64::MAX overflows to an infinity.        *)

NaNs == {NaN(TRUE), NaN(FALSE)}

is_zero(x) == x.class = "finite" /\ x.num = 0

f64_neg(x) == [x EXCEPT !.neg = ~x.neg]

\* the finite result of magnitude num/den, or the infinity it overflows to
Rounded(neg, num, den) ==
    IF num > F64Max * den THEN Infinity(neg) ELSE Ratio(neg, num, den)

f64_add(a, b) ==
    IF a.class = "nan" \/ b.class = "nan" THEN NaNs
    ELSE IF a.class = "inf" /\ b.class = "inf" THEN (IF a.neg = b.neg THEN {a} ELSE NaNs)
    ELSE IF a.class = "inf" THEN {a}
    ELSE IF b.class = "inf" THEN {b}
    ELSE LET sa == (IF a.neg THEN 0 - a.num ELSE a.num) * b.den
             sb == (IF b.neg THEN 0 - b.num ELSE b.num) * a.den
             n  == sa + sb
         IN  IF n = 0
             \* an exact zero is +0.0 unless both operands are -0.0
             THEN {Finite(is_zero(a) /\ is_zero(b) /\ a.neg /\ b.neg, 0, 1)}
             ELSE {Rounded(n < 0, IF n < 0 THEN 0 - n ELSE n, a.den * b.den)}

f64_sub(a, b) == f64_add(a, f64_neg(b))

f64_mul(a, b) ==
    IF a.class = "nan" \/ b.class = "nan" THEN NaNs
    ELSE IF (is_zero(a) /\ b.class = "inf") \/ (a.class = "inf" /\ is_zero(b)) THEN NaNs
    ELSE IF a.class = "inf" \/ b.class = "inf" THEN {Infinity(a.neg # b.neg)}
    ELSE {Rounded(a.neg # b.neg, a.num * b.num, a.den * b.den)}

f64_div(a, b) ==
    IF a.class = "nan" \/ b.class = "nan" THEN NaNs
    ELSE IF a.class = "inf" /\ b.class = "inf" THEN NaNs
    ELSE IF is_zero(a) /\ is_zero(b) THEN NaNs
    ELSE IF a.class = "inf" \/ is_zero(b) THEN {Infinity(a.neg # b.neg)}
    ELSE IF b.class = "inf" THEN {Finite(a.neg # b.neg, 0, 1)}
    ELSE {Rounded(a.neg # b.neg, a.num * b.den, a.den * b.num)}

\* BinaryOp::apply
BinaryOp_apply(op, left, right) ==
    CASE op = "Add" -> f64_add(left, right)
      [] op = "Sub" -> f64_sub(left, right)
      [] op = "Mul" -> f64_mul(left, right)
      [] op = "Div" -> f64_div(left, right)

\* f64::total_cmp(a, b) is Less or Equal: -NaN < -inf < negative finite
\* < -0.0 < +0.0 < positive finite < +inf < +NaN
total_cmp_class(x) ==
    CASE x.class = "nan" -> IF x.neg THEN 0 ELSE 5
      [] x.class = "inf" -> IF x.neg THEN 1 ELSE 4
      [] x.class = "finite" -> IF x.neg THEN 2 ELSE 3

total_cmp_le(a, b) ==
    \/ total_cmp_class(a) < total_cmp_class(b)
    \/ /\ total_cmp_class(a) = total_cmp_class(b)
       /\ CASE a.class # "finite" -> TRUE
            [] a.class = "finite" /\ a.neg -> a.num * b.den >= b.num * a.den
            [] a.class = "finite" /\ ~a.neg -> a.num * b.den <= b.num * a.den

total_cmp_less(a, b) == ~total_cmp_le(b, a)

----------------------------------------------------------------------------
(* Evaluated expressions: the values expression_roll returns.  The method  *)
(* total() of a node is kept in its field `total`; `from` and `to` are the *)
(* numbers of draws the source had answered when expression_roll was       *)
(* entered on the node and when it returned.                               *)

EvaluatedInteger(i, at) ==
    [type |-> "Integer", value |-> i, total |-> f64_from_i64(i), from |-> at, to |-> at]

EvaluatedFloat(x, at) ==
    [type |-> "RollableFloat", value |-> x, total |-> x, from |-> at, to |-> at]

EvaluatedBinary(left, op, right, t, from, to) ==
    [type |-> "BinaryExpression", left |-> left, op |-> op, right |-> right,
     total |-> t, from |-> from, to |-> to]

EvaluatedBlock(inner, from, to) ==
    [type |-> "BlockExpression", inner |-> inner, total |-> inner.total,
     from |-> from, to |-> to]

VariableReferenceRolled(identifier, inner, from, to) ==
    [type |-> "VariableReference", identifier |-> identifier, inner |-> inner,
     total |-> inner.total, from |-> from, to |-> to]

\* r is the Ok value of dyn_roll; total() is `self.total as f64`
EvaluatedRollSpec(r, dice, from, to) ==
    [type |-> "RollSpec", dice |-> dice, roll |-> r, total |-> f64_from_i64(r.total),
     from |-> from, to |-> to]

----------------------------------------------------------------------------
(* Command::roll_with_source, command.rs:52-84, and expression_roll of     *)
(* every node, expression.rs:97-219.  `frames` is the stack of             *)
(* expression_roll calls in progress, `values` the results returned to the *)
(* call on top, `expressions` the Vec the repetitions are collected in.    *)

Frame(node, step, from) == [node |-> node, step |-> step, from |-> from]

top == frames[Len(frames)]

pop(s) == SubSeq(s, 1, Len(s) - 1)

\* the frame on top moves to `step` and calls expression_roll on `node`
call(step, node) ==
    Append([frames EXCEPT ![Len(frames)].step = step], Frame(node, "enter", Len(source)))

\* `self.repeat.as_ref().map(|r| r.count).unwrap_or(1)`
repeat_count(c) == IF c.repeat.some THEN c.repeat.value.count ELSE 1

NoTotal == [some |-> FALSE, value |-> Finite(FALSE, 0, 1)]

EvaluatedCommand(t, es, repeat, reason) ==
    [total |-> t, expressions |-> es, repeat |-> repeat, reason |-> reason]

OkCommand(v) == [kind |-> "Ok", value |-> v]

\* `expressions.iter().fold(0.0, |x, y| x + y.total())`
RECURSIVE fold_totals(_)
fold_totals(es) ==
    IF es = <<>> THEN {Finite(FALSE, 0, 1)}
    ELSE UNION {f64_add(x, es[Len(es)].total) : x \in fold_totals(pop(es))}

\* sort_by with the operands of total_cmp exchanged: descending
sort_by_total_cmp_reversed(es) ==
    LET rank(i) == 1 + Cardinality({j \in DOMAIN es :
                        \/ total_cmp_less(es[i].total, es[j].total)
                        \/ /\ ~total_cmp_less(es[j].total, es[i].total)
                           /\ ~total_cmp_less(es[i].total, es[j].total)
                           /\ j < i})
    IN  [p \in DOMAIN es |-> es[CHOOSE i \in DOMAIN es : rank(i) = p]]

\* `expressions.sort_by(|a, b| f64::total_cmp(&a.total(), &b.total()))`,
\* a stable sort
sort_by_total_cmp(es) ==
    LET rank(i) == 1 + Cardinality({j \in DOMAIN es :
                        \/ total_cmp_less(es[j].total, es[i].total)
                        \/ /\ ~total_cmp_less(es[j].total, es[i].total)
                           /\ ~total_cmp_less(es[i].total, es[j].total)
                           /\ j < i})
    IN  [p \in DOMAIN es |-> es[CHOOSE i \in DOMAIN es : rank(i) = p]]

\* the match on self.repeat with every repeated mode summed
command_total_always_sums(repeat, es) ==
    IF ~repeat.some THEN {Some(es[1].total)}
    ELSE {Some(t) : t \in fold_totals(es)}

\* the `total` of lines 62-72: the values the match on self.repeat can give
command_total(repeat, es) ==
    IF ~repeat.some THEN {Some(es[1].total)}
    ELSE CASE repeat.value.mode = "Sum"  -> {Some(t) : t \in fold_totals(es)}
           [] repeat.value.mode = "Sort" -> {NoTotal}
           [] repeat.value.mode = "None" -> {NoTotal}

\* the Vec after the match: sorted in place in Sort mode
command_expressions(repeat, es) ==
    IF repeat.some /\ repeat.value.mode = "Sort" THEN sort_by_total_cmp(es) ELSE es

\* the operands of a BinaryExpression rolled right operand first
operands_right_first(node) == <<node.right, node.left>>

\* the operands of a BinaryExpression in the order expression_roll rolls them
operands(node) == <<node.left, node.right>>

\* the caller replaces every binding of its map after the parse
Rebind ==
    /\ cpc = "parsed"
    /\ \E name \in DOMAIN variables : variables[name].type # "Integer"
    /\ variables' = [name \in DOMAIN variables |-> Integer(0)]
    /\ UNCHANGED <<roll_vars, source, earlier, input, command, shown, reparsed, reshown,
                   command_vars>>

\* Command::roll_with_source is called on the parsed command
BeginRoll ==
    /\ cpc = "parsed"
    /\ cpc' = "rolling"
    /\ frames' = <<>>
    /\ values' = <<>>
    /\ expressions' = <<>>
    /\ UNCHANGED <<roll_vars, source, earlier, parse_vars, evaluated>>

\* one step of `(0..count).map(|_i| self.expression.roll_with_source(rng))`
BeginRepetition ==
    /\ cpc = "rolling"
    /\ frames = <<>>
    /\ values = <<>>
    /\ Len(expressions) < repeat_count(command.value)
    /\ frames' = <<Frame(command.value.expression, "enter", Len(source))>>
    /\ UNCHANGED <<roll_vars, source, earlier, parse_vars, cpc, values, expressions, evaluated>>

\* expression_roll of an i64 and of a RollableFloat
EvalConstant ==
    /\ frames # <<>>
    /\ top.step = "enter"
    /\ top.node.type \in {"Integer", "RollableFloat"}
    /\ frames' = pop(frames)
    /\ values' = Append(values,
          IF top.node.type = "Integer" THEN EvaluatedInteger(top.node.value, Len(source))
          ELSE EvaluatedFloat(top.node.value, Len(source)))
    /\ UNCHANGED <<roll_vars, source, earlier, parse_vars, cpc, expressions, evaluated>>

\* BinaryExpression: `let left = self.left.roll_with_source(rng)?`
EnterLeft ==
    /\ frames # <<>>
    /\ top.step = "enter"
    /\ top.node.type = "BinaryExpression"
    /\ frames' = call("left", operands(top.node)[1])
    /\ UNCHANGED <<roll_vars, source, earlier, parse_vars, cpc, values, expressions, evaluated>>

\* BinaryExpression: `let right = self.right.roll_with_source(rng)?`
EnterRight ==
    /\ frames # <<>>
    /\ top.step = "left"
    /\ frames' = call("right", operands(top.node)[2])
    /\ UNCHANGED <<roll_vars, source, earlier, parse_vars, cpc, values, expressions, evaluated>>

\* BinaryExpression: `Ok(Box::new(BinaryExpression { left, op, right }))`
BinaryDone ==
    /\ frames # <<>>
    /\ top.step = "right"
    /\ LET left  == values[Len(values) - 1]
           right == values[Len(values)]
       IN  \E t \in BinaryOp_apply(top.node.op, left.total, right.total) :
              values' = Append(pop(pop(values)),
                  EvaluatedBinary(left, top.node.op, right, t, top.from, Len(source)))
    /\ frames' = pop(frames)
    /\ UNCHANGED <<roll_vars, source, earlier, parse_vars, cpc, expressions, evaluated>>

\* a VariableReference looking its name up in the map when it is rolled
inner_of_looked_up(node) ==
    IF node.type = "VariableReference" THEN variables[node.identifier] ELSE node.inner

\* the `inner` field of a BlockExpression or VariableReference
inner_of(node) == node.inner

\* BlockExpression and VariableReference: `self.inner.roll_with_source(rng)?`
EnterInner ==
    /\ frames # <<>>
    /\ top.step = "enter"
    /\ top.node.type \in {"BlockExpression", "VariableReference"}
    /\ frames' = call("inner", inner_of(top.node))
    /\ UNCHANGED <<roll_vars, source, earlier, parse_vars, cpc, values, expressions, evaluated>>

\* BlockExpression and VariableReference: the Ok(Box::new(..)) around inner
InnerDone ==
    /\ frames # <<>>
    /\ top.step = "inner"
    /\ values' = Append(pop(values),
          IF top.node.type = "BlockExpression"
          THEN EvaluatedBlock(values[Len(values)], top.from, Len(source))
          ELSE VariableReferenceRolled(top.node.identifier, values[Len(values)],
                                       top.from, Len(source)))
    /\ frames' = pop(frames)
    /\ UNCHANGED <<roll_vars, source, earlier, parse_vars, cpc, expressions, evaluated>>

\* RollSpec::expression_roll: `self.dyn_roll(rng)` is entered
EnterDice ==
    /\ frames # <<>>
    /\ top.step = "enter"
    /\ top.node.type = "RollSpec"
    /\ pc = "idle"
    /\ frames' = [frames EXCEPT ![Len(frames)].step = "dice"]
    /\ spec' = top.node.spec
    /\ pc' = "initial"
    /\ rolls' = <<>>
    /\ history' = <<>>
    /\ modified' = <<>>
    /\ roll' = 0
    /\ new_rolls' = <<>>
    /\ drawn' = <<>>
    /\ result' = [kind |-> "none"]
    /\ UNCHANGED <<source, earlier, parse_vars, cpc, values, expressions, evaluated>>

\* the locals of a dyn_roll that returned are gone
LeaveDice ==
    /\ spec' = [kind |-> "none"]
    /\ pc' = "idle"
    /\ rolls' = <<>>
    /\ history' = <<>>
    /\ modified' = <<>>
    /\ roll' = 0
    /\ new_rolls' = <<>>
    /\ drawn' = <<>>
    /\ result' = [kind |-> "none"]

\* RollSpec::expression_roll: dyn_roll returned Ok(x), `Ok(boxed)`
ReturnDice ==
    /\ frames # <<>>
    /\ top.step = "dice"
    /\ pc = "done"
    /\ result.kind = "Ok"
    /\ values' = Append(values, EvaluatedRollSpec(result, spec.dice, top.from, Len(source)))
    /\ frames' = pop(frames)
    /\ LeaveDice
    /\ UNCHANGED <<source, earlier, parse_vars, cpc, expressions, evaluated>>

\* the Err of a repetition dropped and the results collected before it
\* returned as the whole roll
FailRollReturnsCollected ==
    /\ frames # <<>>
    /\ top.step = "dice"
    /\ pc = "done"
    /\ result.kind = "Err"
    /\ evaluated' = OkCommand(EvaluatedCommand(NoTotal, expressions,
                                               command.value.repeat, command.value.reason))
    /\ cpc' = "rolled"
    /\ frames' = <<>>
    /\ values' = <<>>
    /\ UNCHANGED expressions
    /\ LeaveDice
    /\ UNCHANGED <<source, earlier, parse_vars>>

\* dyn_roll returned Err(e): every `?` up to `let mut expressions =
\* expressions?` returns it, nothing more is rolled
FailRoll ==
    /\ frames # <<>>
    /\ top.step = "dice"
    /\ pc = "done"
    /\ result.kind = "Err"
    /\ evaluated' = Err(result.error)
    /\ cpc' = "rolled"
    /\ frames' = <<>>
    /\ values' = <<>>
    /\ expressions' = <<>>
    /\ LeaveDice
    /\ UNCHANGED <<source, earlier, parse_vars>>

\* the expression of one repetition returned Ok: collect() keeps it
EndRepetition ==
    /\ cpc = "rolling"
    /\ frames = <<>>
    /\ Len(values) = 1
    /\ expressions' = Append(expressions, values[1])
    /\ values' = <<>>
    /\ UNCHANGED <<roll_vars, source, earlier, parse_vars, cpc, frames, evaluated>>

\* lines 62-83 with `self.repeat.take()` in place of the copy of self.repeat:
\* the roll leaves the Command without its repeat
FinishCommandTakesRepeat ==
    /\ cpc = "rolling"
    /\ frames = <<>>
    /\ values = <<>>
    /\ Len(expressions) = repeat_count(command.value)
    /\ \E t \in command_total(command.value.repeat, expressions) :
          evaluated' = OkCommand(EvaluatedCommand(t,
                          command_expressions(command.value.repeat, expressions),
                          command.value.repeat, command.value.reason))
    /\ expressions' = command_expressions(command.value.repeat, expressions)
    /\ cpc' = "rolled"
    /\ command' = [command EXCEPT !.value.repeat = NoRepeat]
    /\ UNCHANGED <<roll_vars, source, earlier, input, variables, shown, reparsed, reshown,
                   frames, values>>

\* lines 62-83: the total, the sort, Ok(EvaluatedCommand { .. })
FinishCommand ==
    /\ cpc = "rolling"
    /\ frames = <<>>
    /\ values = <<>>
    /\ Len(expressions) = repeat_count(command.value)
    /\ \E t \in command_total(command.value.repeat, expressions) :
          evaluated' = OkCommand(EvaluatedCommand(t,
                          command_expressions(command.value.repeat, expressions),
                          command.value.repeat, command.value.reason))
    /\ expressions' = command_expressions(command.value.repeat, expressions)
    /\ cpc' = "rolled"
    /\ UNCHANGED <<roll_vars, source, earlier, parse_vars, frames, values>>

----------------------------------------------------------------------------
(* format_history of the evaluated expressions.  The two non-ASCII         *)
(* separators of the source's format strings are written "->" and "+>".   *)

Verbosities == {"Short", "Medium", "Verbose"}

Arrow == "->"

ExplodeArrow == "+>"

\* Display of a roll: u32, or FudgeRoll as (+), ( ), (-)
format_roll(dice, r) ==
    IF dice.kind = "Basic" THEN ToString(r)
    ELSE CASE r = 1 -> "(+)" [] r = 0 -> "( )" [] r = -1 -> "(-)"

\* format_join: the strings joined with sep
RECURSIVE format_join(_, _)
format_join(strings, sep) ==
    IF strings = <<>> THEN ""
    ELSE IF Len(strings) = 1 THEN strings[1]
    ELSE strings[1] \o sep \o format_join(Tail(strings), sep)

format_rolls(strings, markdown) ==
    IF markdown THEN "\\[" \o format_join(strings, ", ") \o "\\]"
    ELSE "[" \o format_join(strings, ", ") \o "]"

\* ModifiedRoll::chain: before, then all but the last of items
chain(m) == SubSeq(<<m.before>> \o m.items, 1, Len(m.items))

\* ModifiedRoll::format
ModifiedRoll_format(dice, m, markdown) ==
    LET show(r) == format_roll(dice, r)
        each(prefix, suffix) ==
            format_join([i \in DOMAIN chain(m) |-> prefix \o show(chain(m)[i]) \o suffix], "")
                \o show(m.items[Len(m.items)])
    IN  CASE m.modifier = "None" -> show(m.before)
          [] m.modifier = "Drop" ->
                IF markdown THEN "~~*" \o show(m.before) \o "*~~"
                ELSE "Drop(" \o show(m.before) \o ")"
          [] m.modifier = "Reroll" ->
                IF markdown THEN each("~~*", "*~~" \o Arrow)
                ELSE each("", Arrow \o "Reroll" \o Arrow)
          [] m.modifier = "Explode" ->
                IF markdown THEN each("**", "**&#x200B;" \o ExplodeArrow)
                ELSE each("", "(Exploded)" \o ExplodeArrow)

\* Display for RollBatchModifier
modifier_format(dice, op) ==
    CASE op.type = "KeepHi" -> "K" \o ToString(op.n)
      [] op.type = "KeepLo" -> "k" \o ToString(op.n)
      [] op.type = "DropHi" -> "D" \o ToString(op.n)
      [] op.type = "DropLo" -> "d" \o ToString(op.n)
      [] op.type = "RerollOnce" -> "r" \o format_roll(dice, op.n)
      [] op.type = "RerollUnlimited" -> "ir" \o format_roll(dice, op.n)
      [] op.type = "ExplodeOnce" -> "e" \o format_roll(dice, op.n)
      [] op.type = "ExplodeUnlimited" -> "!" \o format_roll(dice, op.n)

\* EvaluatedRollSpec::format_history pushing the final rolls whenever the
\* verbosity is not Short
RollSpec_format_history_final_in_medium(e, markdown, verbose) ==
    LET show(rs) == format_rolls([i \in DOMAIN rs |-> format_roll(e.dice, rs[i])], markdown)
        stage_format(s) ==
            format_rolls([i \in DOMAIN s.rolls |->
                             ModifiedRoll_format(e.dice, s.rolls[i], markdown)], markdown)
                \o modifier_format(e.dice, s.modifier)
        stages == [i \in DOMAIN e.roll.history |-> stage_format(e.roll.history[i])]
    IN  IF e.roll.history = <<>> THEN show(e.roll.final_rolls)
        ELSE IF verbose = "Short"
        THEN show([i \in DOMAIN e.roll.history[1].rolls |->
                      e.roll.history[1].rolls[i].before]) \o " " \o Arrow \o " "
                \o show(e.roll.final_rolls)
        ELSE format_join(Append(stages, show(e.roll.final_rolls)), " " \o Arrow \o " ")

\* EvaluatedRollSpec::format_history
RollSpec_format_history(e, markdown, verbose) ==
    LET show(rs) == format_rolls([i \in DOMAIN rs |-> format_roll(e.dice, rs[i])], markdown)
        stage_format(s) ==
            format_rolls([i \in DOMAIN s.rolls |->
                             ModifiedRoll_format(e.dice, s.rolls[i], markdown)], markdown)
                \o modifier_format(e.dice, s.modifier)
        stages == [i \in DOMAIN e.roll.history |-> stage_format(e.roll.history[i])]
    IN  IF e.roll.history = <<>> THEN show(e.roll.final_rolls)
        ELSE IF verbose = "Short"
        THEN show([i \in DOMAIN e.roll.history[1].rolls |->
                      e.roll.history[1].rolls[i].before]) \o " " \o Arrow \o " "
                \o show(e.roll.final_rolls)
        ELSE format_join(IF verbose = "Verbose"
                         THEN Append(stages, show(e.roll.final_rolls)) ELSE stages,
                         " " \o Arrow \o " ")

\* Display for RollableFloat: {:.1} when fract() == 0.0, else the shortest
\* form; the finite values shown are literals with one digit after the point
RollableFloat_format(x) ==
    CASE x.class = "nan" -> "NaN"
      [] x.class = "inf" -> IF x.neg THEN "-inf" ELSE "inf"
      [] x.class = "finite" ->
            (IF x.neg THEN "-" ELSE "") \o ToString(x.num \div x.den) \o "."
                \o ToString(((x.num % x.den) * 10) \div x.den)

\* BinaryOp::format
BinaryOp_format(op, left, right, markdown) ==
    left \o (CASE op = "Add" -> " + "
               [] op = "Sub" -> " - "
               [] op = "Mul" -> IF markdown THEN "\\*" ELSE "*"
               [] op = "Div" -> "/") \o right

\* EvaluatedExpression::format_history of every node
RECURSIVE format_history(_, _, _)
format_history(e, markdown, verbose) ==
    CASE e.type = "Integer" -> ToString(e.value)
      [] e.type = "RollableFloat" -> RollableFloat_format(e.value)
      [] e.type = "BinaryExpression" ->
            BinaryOp_format(e.op, format_history(e.left, markdown, verbose),
                            format_history(e.right, markdown, verbose), markdown)
      [] e.type = "BlockExpression" ->
            "(" \o format_history(e.inner, markdown, verbose) \o ")"
      [] e.type = "VariableReference" ->
            IF verbose = "Short" THEN "$" \o e.identifier
            ELSE "($" \o e.identifier \o ": "
                    \o format_history(e.inner, markdown, verbose) \o ")"
      [] e.type = "RollSpec" -> RollSpec_format_history(e, markdown, verbose)

----------------------------------------------------------------------------
(* The commands rolled: repeated dice in every mode, repeated quotients    *)
(* and products whose totals are infinities, NaNs and zeros of either      *)
(* sign, binary expressions over dice of different sides, dice whose roll  *)
(* fails, and references to variables.                                     *)

Die(sides) == DicePairs(NoValue, Digits(sides), <<>>)

DieWith(number_of_dice, sides, rule, value) ==
    DicePairs(Some(Digits(number_of_dice)), Digits(sides), <<Option(rule, value)>>)

\* (d<sides> - n)
DieMinus(sides, n) == BlockToken(<<Die(sides), Operator("sub"), IntegerToken(FALSE, n)>>)

RepeatedTexts ==
    {Repeated(<<Die(3)>>, mode, Digits(count)) :
         mode \in RepeatedModes, count \in 1 .. MAX_NUMBER_OF_DICE}
    \cup {Repeated(expr, mode, Digits(2)) :
            mode \in RepeatedModes,
            expr \in {<<IntegerToken(TRUE, 1), Operator("div"), DieMinus(3, 2)>>,
                      <<IntegerToken(FALSE, 0), Operator("mul"), DieMinus(2, 2)>>,
                      <<FloatToken(FALSE, 0, 0), Operator("div"), DieMinus(2, 1)>>,
                      <<FloatToken(FALSE, F64Max + 1, 0), Operator("mul"), DieMinus(3, 2)>>,
                      <<DieWith(1, 2, "i_reroll", Some(Digits(1)))>>,
                      <<VariableToken("a")>>}}

SingleTexts ==
    {Single(expr) : expr \in
        {<<Die(2), Operator("sub"), Die(3)>>,
         <<Die(2), Operator("div"), Die(1), Operator("add"), Die(3)>>,
         <<Die(1), Operator("add"), Die(2), Operator("mul"), Die(3)>>,
         <<BlockToken(<<Die(2), Operator("add"), Die(1)>>), Operator("mul"), Die(3)>>,
         <<FloatToken(FALSE, 1, 5), Operator("add"), Die(2)>>,
         <<DieWith(2, 2, "keep_hi", Some(Digits(1)))>>,
         <<DieWith(1, 2, "keep_hi", Some(Digits(2)))>>,
         <<DieWith(2, 2, "reroll", Some(Digits(1)))>>,
         <<DieWith(2, 2, "explode", NoValue)>>,
         <<DieWith(1, 2, "i_reroll", Some(Digits(2)))>>,
         <<Die(2), Operator("add"), DieWith(1, 2, "i_reroll", Some(Digits(2))),
           Operator("add"), Die(3)>>,
         <<VariableToken("a"), Operator("sub"), VariableToken("b")>>,
         <<VariableToken("b"), Operator("mul"), BlockToken(<<VariableToken("a")>>)>>,
         <<VariableToken("a"), Operator("add"), VariableToken("c")>>,
         <<VariableToken("c")>>}}

\* the variable maps handed to the parse: empty, or a bound to d2 and b to 1.5
Bound ==
    [name \in {"a", "b"} |->
        IF name = "a" THEN Dice(RollSpec(BasicDice(2), 1, <<>>, Sum))
        ELSE RollableFloat(Finite(FALSE, 3, 2))]

InitCommand ==
    \E t \in RepeatedTexts \cup SingleTexts :
        \/ StartParse(t, <<>>)
        \/ StartParse(t, Bound)

NextCommand ==
    \/ Parse
    \/ Rebind
    \/ BeginRoll
    \/ BeginRepetition
    \/ EvalConstant
    \/ EnterLeft
    \/ EnterRight
    \/ BinaryDone
    \/ EnterInner
    \/ InnerDone
    \/ EnterDice
    \/ ReturnDice
    \/ FailRoll
    \/ EndRepetition
    \/ FinishCommand
    \/ Next

SpecCommand == InitCommand /\ [][NextCommand]_vars

----------------------------------------------------------------------------
(* Display: the text of an Expression and of a Command, as the tokens the  *)
(* grammar would read from it.                                             *)

\* Display of a roll used as a threshold: digits, or (+), ( ), (-) for Fudge
Roll_display(dice, r) == IF dice.kind = "Basic" THEN Digits(r) ELSE FudgeValue(r)

\* `items.sort()` of the TargetEnum's HashSet
RECURSIVE sorted_items(_)
sorted_items(S) ==
    IF S = {} THEN <<>>
    ELSE LET least == CHOOSE x \in S : \A y \in S : x <= y
         IN  <<least>> \o sorted_items(S \ {least})

\* Display for RollBatchModifier: the letter and the number or roll
Modifier_display(dice, op) ==
    CASE op.type = "KeepHi" -> Option("keep_hi", Some(Digits(op.n)))
      [] op.type = "KeepLo" -> Option("keep_lo", Some(Digits(op.n)))
      [] op.type = "DropHi" -> Option("drop_hi", Some(Digits(op.n)))
      [] op.type = "DropLo" -> Option("drop_lo", Some(Digits(op.n)))
      [] op.type = "RerollOnce" -> Option("reroll", Some(Roll_display(dice, op.n)))
      [] op.type = "RerollUnlimited" -> Option("i_reroll", Some(Roll_display(dice, op.n)))
      [] op.type = "ExplodeOnce" -> Option("explode", Some(Roll_display(dice, op.n)))
      [] op.type = "ExplodeUnlimited" -> Option("i_explode", Some(Roll_display(dice, op.n)))

\* the aggregator part of Display for RollSpec: t, f, tt in this order, or
\* t[..] with the items sorted
Aggregator_display(dice, a) ==
    CASE a.type = "Sum" -> <<>>
      [] a.type = "TargetFailureDouble" ->
            (IF a.t.some THEN <<Option("target", Some(Roll_display(dice, a.t.value)))>>
             ELSE <<>>)
            \o (IF a.f.some THEN <<Option("failure", Some(Roll_display(dice, a.f.value)))>>
                ELSE <<>>)
            \o (IF a.d.some
                THEN <<Option("double_target", Some(Roll_display(dice, a.d.value)))>>
                ELSE <<>>)
      [] a.type = "TargetEnum" ->
            <<TargetEnumOption([i \in 1 .. Cardinality(a.items) |->
                                   Roll_display(dice, sorted_items(a.items)[i])])>>

\* Display for RollSpec: "{number_of_dice}d{dice}{modifiers}{aggregator}"
RollSpec_display(s) ==
    DicePairs(Some(Digits(s.number_of_dice)),
              IF s.dice.kind = "Basic" THEN Digits(s.dice.sides) ELSE FudgeToken,
              [i \in DOMAIN s.modifiers |-> Modifier_display(s.dice, s.modifiers[i])]
                  \o Aggregator_display(s.dice, s.aggregator))

\* Display for RollableFloat: "{:.1}" when fract() == 0.0, else the plain
\* form, which for an infinity is the word inf
RollableFloat_display(x) ==
    IF fract_is_zero(x) THEN FloatToken(x.neg, x.num, 0)
    ELSE CASE x.class = "inf" -> Word(IF x.neg THEN "-inf" ELSE "inf")
           [] x.class = "nan" -> Word("NaN")
           [] x.class = "finite" ->
                 FloatToken(x.neg, x.num \div x.den, ((x.num % x.den) * 10) \div x.den)

operator_rule(op) ==
    CASE op = "Add" -> "add" [] op = "Sub" -> "sub"
      [] op = "Mul" -> "mul" [] op = "Div" -> "div"

\* Display of every node of an Expression
RECURSIVE Expression_display(_)
Expression_display(e) ==
    CASE e.type = "Integer" -> <<IntegerToken(e.value < 0,
                                              IF e.value < 0 THEN 0 - e.value ELSE e.value)>>
      [] e.type = "RollableFloat" -> <<RollableFloat_display(e.value)>>
      [] e.type = "BinaryExpression" ->
            Expression_display(e.left) \o <<Operator(operator_rule(e.op))>>
                \o Expression_display(e.right)
      [] e.type = "BlockExpression" -> <<BlockToken(Expression_display(e.inner))>>
      [] e.type = "VariableReference" -> <<Word("($" \o e.identifier \o ": inner)")>>
      [] e.type = "RollSpec" -> <<RollSpec_display(e.spec)>>

\* FancyFormat::format of an Expression at Medium verbosity without markdown
Expression_format(e) == Expression_display(e)

\* Display for RepeatedCommand: "^ n", "^+ n", "^# n"
RepeatedCommand_display(repeat) == RepeatToken(repeat.mode, Digits(repeat.count))

\* Display for Command: FancyFormat::format(false, Medium); the expression
\* of a repeat is written without parentheses
Command_format(c) ==
    CommandText(Expression_format(c.expression), FALSE,
                IF c.repeat.some THEN Some(RepeatedCommand_display(c.repeat.value))
                ELSE NoRepeatToken,
                c.reason)

----------------------------------------------------------------------------
(* The round trip of the fuzz target parse_roundtrip: parse, format, parse *)
(* the formatted text, format again.                                       *)

\* `let f = format!("{roller}")`
Show ==
    /\ cpc = "parsed"
    /\ shown' = Command_format(command.value)
    /\ cpc' = "shown"
    /\ UNCHANGED <<roll_vars, source, earlier, input, variables, command, reparsed, reshown,
                   frames, values, expressions, evaluated>>

\* `Command::parse(&f)`
Reparse ==
    /\ cpc = "shown"
    /\ reparsed' = parse_with_variables(shown, <<>>)
    /\ cpc' = IF reparsed'.ok THEN "reparsed" ELSE "unparsable"
    /\ UNCHANGED <<roll_vars, source, earlier, input, variables, command, shown, reshown,
                   frames, values, expressions, evaluated>>

\* `let f2 = format!("{parsed2}")`
Reshow ==
    /\ cpc = "reparsed"
    /\ reshown' = Command_format(reparsed.value)
    /\ cpc' = "reshown"
    /\ UNCHANGED <<roll_vars, source, earlier, input, variables, command, shown, reparsed,
                   frames, values, expressions, evaluated>>

\* the float literals: every integer part up to beyond f64::MAX, with the
\* digit 0 or 5 after the point
FloatLiterals ==
    {FloatToken(FALSE, n, frac) : n \in 0 .. MaxLiteral, frac \in {0, 5}}

IntegerLiterals == {IntegerToken(neg, n) : neg \in BOOLEAN, n \in 0 .. MaxLiteral}

\* the texts of the round trip: dice terms with every list of up to three
\* options, Fudge dice, numbers, blocks and binary expressions
InitRoundTrip ==
    \/ \E options \in OptionLists :
          StartParse(Single(<<DicePairs(Some(Digits(2)), Digits(2), options)>>), <<>>)
    \/ \E options \in FudgeOptionLists :
          StartParse(Single(<<DicePairs(NoValue, FudgeToken, options)>>), <<>>)
    \/ \E a \in FloatLiterals \cup IntegerLiterals :
          \/ StartParse(Single(<<a>>), <<>>)
          \/ StartParse(Single(<<BlockToken(<<a>>)>>), <<>>)
          \/ \E op \in Operators :
                StartParse(Single(<<BlockToken(<<a, Operator(op), Die(2)>>), Operator("sub"),
                                    Die(1), Operator(op), IntegerToken(FALSE, 1)>>), <<>>)

NextRoundTrip ==
    \/ Parse
    \/ Show
    \/ Reparse
    \/ Reshow

SpecRoundTrip == InitRoundTrip /\ [][NextRoundTrip]_vars

----------------------------------------------------------------------------
(* Readings of the state used by the properties below.                     *)

\* the `before` values of a ModifiedRollBatch, in order
befores(ms) == [i \in DOMAIN ms |-> ms[i].before]

\* the initial batch: the first number_of_dice values drawn
initial_batch == SubSeq(drawn, 1, spec.number_of_dice)

\* the batch stage i of a history was applied to
stage_input(h, i) == IF i = 1 THEN initial_batch ELSE batch_after(h[i - 1].rolls)

Succeeded == pc = "done" /\ result.kind = "Ok"

Failed == pc = "done" /\ result.kind = "Err"

FailedWith(text) == Failed /\ result.error.text = text

BatchAggregationText == "Exceed maximum allowed number of dice during batch aggregation"

----------------------------------------------------------------------------
(* C1: whenever the roll succeeds, the batch every modifier stage produced *)
(* holds at most MAX_NUMBER_OF_DICE rolls; a stage that produced more made *)
(* the roll return the "batch aggregation" ParamError, the stage is not    *)
(* recorded and there is no evaluated result.                              *)
C1_StageBatchWithinLimit ==
    /\ \A i \in DOMAIN history :
          Len(batch_after(history[i].rolls)) <= MAX_NUMBER_OF_DICE
    /\ Succeeded =>
          /\ Len(result.final_rolls) <= MAX_NUMBER_OF_DICE
          /\ \A i \in DOMAIN result.history :
                Len(batch_after(result.history[i].rolls)) <= MAX_NUMBER_OF_DICE
    /\ Len(rolls) > MAX_NUMBER_OF_DICE =>
          /\ FailedWith(BatchAggregationText)
          /\ result.error.kind = "ParamError"
          /\ result.error.args = <<MAX_NUMBER_OF_DICE>>
          /\ Len(history) < Len(spec.modifiers)
    /\ FailedWith(BatchAggregationText) => Len(rolls) > MAX_NUMBER_OF_DICE

\* a stage produced more than the limit and the roll failed on it
C1_Witness ==
    /\ FailedWith(BatchAggregationText)
    /\ Len(rolls) = MAX_NUMBER_OF_DICE + 1
    /\ Len(history) = 1

----------------------------------------------------------------------------
(* C2: after a successful roll the history has one entry per modifier, in  *)
(* modifier order; the `before` values of stage 1 are the initial batch;   *)
(* the concatenated after() of stage i is the `before` list of stage i+1;  *)
(* the concatenated after() of the last stage is final_rolls; and with no  *)
(* modifiers final_rolls is the initial batch.                             *)
C2_HistoryChains ==
    Succeeded =>
        LET h == result.history
        IN  /\ Len(h) = Len(spec.modifiers)
            /\ \A i \in DOMAIN h : h[i].modifier = spec.modifiers[i]
            /\ h # <<>> => befores(h[1].rolls) = initial_batch
            /\ \A i \in DOMAIN h :
                  i < Len(h) => batch_after(h[i].rolls) = befores(h[i + 1].rolls)
            /\ h # <<>> => batch_after(h[Len(h)].rolls) = result.final_rolls
            /\ h = <<>> => result.final_rolls = initial_batch

\* a successful roll of two stages, the first of which changed the batch
C2_Witness ==
    /\ Succeeded
    /\ Len(result.history) = 2
    /\ batch_after(result.history[1].rolls) # befores(result.history[1].rolls)
    /\ result.final_rolls # batch_after(result.history[1].rolls)

----------------------------------------------------------------------------
(* Readings of a KeepOrDrop stage.                                         *)

kept(ms) == {i \in DOMAIN ms : ms[i].modifier = "None"}

dropped(ms) == {i \in DOMAIN ms : ms[i].modifier = "Drop"}

keep_count(op, len) == IF op.type \in {"KeepHi", "KeepLo"} THEN op.n ELSE len - op.n

keeps_high(op) == op.type \in {"KeepHi", "DropLo"}

KeepLo(n) == [type |-> "KeepLo", n |-> n]

KeepHi(n) == [type |-> "KeepHi", n |-> n]

\* pairs (kept, dropped) of positions that hold the same value
tied(ms) == {p \in kept(ms) \X dropped(ms) : ms[p[1]].before = ms[p[2]].before}

----------------------------------------------------------------------------
(* C3: a KeepOrDrop stage applied to a batch v returns a list as long as v *)
(* with the values of v in the order of v, each flagged keep or drop;      *)
(* exactly k are kept (k = n for KeepHi/KeepLo, len - n for DropHi/DropLo);*)
(* no dropped value is better than a kept one (higher under KeepHi/DropLo, *)
(* lower under KeepLo/DropHi), so the kept multiset is the k highest or k  *)
(* lowest; DropHi n flags as KeepLo(len-n) and DropLo n as KeepHi(len-n).  *)
C3_KeepOrDropSelects ==
    \A i \in DOMAIN history :
        is_keep_or_drop(history[i].modifier) =>
            LET ms == history[i].rolls
                op == history[i].modifier
                v  == stage_input(history, i)
            IN  /\ befores(ms) = v
                /\ kept(ms) \cup dropped(ms) = DOMAIN v
                /\ Cardinality(kept(ms)) = keep_count(op, Len(v))
                /\ \A a \in kept(ms), b \in dropped(ms) :
                      IF keeps_high(op) THEN v[a] >= v[b] ELSE v[a] <= v[b]
                /\ op.type = "DropHi" =>
                      ms = keep_or_drop(v, KeepLo(Len(v) - op.n)).value
                /\ op.type = "DropLo" =>
                      ms = keep_or_drop(v, KeepHi(Len(v) - op.n)).value

\* DropHi 1 on three dice whose highest is the middle one
C3_Witness ==
    /\ Succeeded
    /\ spec.modifiers = <<[type |-> "DropHi", n |-> 1]>>
    /\ Len(result.history[1].rolls) = 3
    /\ dropped(result.history[1].rolls) = {2}
    /\ result.final_rolls = <<1, 2>>

----------------------------------------------------------------------------
(* C4 as claimed: among rolls of equal value of which some are kept and    *)
(* some dropped, keep-low (KeepLo, DropHi) keeps the earliest and          *)
(* keep-high (KeepHi, DropLo) keeps the latest.                            *)
C4_TieLatestUnderKeepHigh ==
    \A i \in DOMAIN history :
        is_keep_or_drop(history[i].modifier) =>
            \A p \in tied(history[i].rolls) :
                IF keeps_high(history[i].modifier) THEN p[1] > p[2] ELSE p[1] < p[2]

(* C4 amended: among rolls of equal value of which some are kept and some  *)
(* dropped, the earliest are kept, under keep-low and under keep-high.     *)
C4_TieEarliestKept ==
    \A i \in DOMAIN history :
        is_keep_or_drop(history[i].modifier) =>
            \A p \in tied(history[i].rolls) : p[1] < p[2]

\* KeepHi 1 on a batch whose two highest rolls are equal
C4_Witness ==
    /\ Succeeded
    /\ spec.modifiers = <<KeepHi(1)>>
    /\ befores(result.history[1].rolls) = <<2, 1, 2>>
    /\ tied(result.history[1].rolls) # {}

----------------------------------------------------------------------------
(* C5: a Keep/Drop n stage reaching a batch of fewer than n rolls makes    *)
(* the roll return a ParamError (for drops "Cannot drop n dice when there  *)
(* are only len"), the stage is not recorded and nothing is evaluated;     *)
(* with n <= len the stage never fails, n = 0 and n = len included.        *)
C5_KeepOrDropNeedsEnoughDice ==
    /\ \A i \in DOMAIN history :
          is_keep_or_drop(history[i].modifier) =>
              history[i].modifier.n <= Len(history[i].rolls)
    /\ (pc = "done" /\ stage <= Len(spec.modifiers)
            /\ is_keep_or_drop(spec.modifiers[stage])) =>
          LET op == spec.modifiers[stage]
          IN  /\ op.n > Len(rolls)
              /\ result.kind = "Err"
              /\ result.error =
                    IF op.type \in {"DropHi", "DropLo"}
                    THEN ParamError("Cannot drop n dice when there are only len",
                                    <<op.n, Len(rolls)>>)
                    ELSE ParamError("Not enough dice to keep or drop", <<>>)

\* a drop of more dice than the batch holds, refused after an earlier stage
C5_Witness ==
    /\ Failed
    /\ result.error.text = "Cannot drop n dice when there are only len"
    /\ result.error.args = <<2, 1>>
    /\ Len(history) = 1

----------------------------------------------------------------------------
(* Readings of the unlimited modifiers.                                    *)

RerollForeverText ==
    "Cannot infinitely reroll dice of n or lower since the maximum roll is max"

ExplodeForeverText ==
    "Cannot infinitely explode dice of n or higher since the minimum roll is min"

\* the modifier list holds an unlimited reroll or explode that cannot end
has_rejected_unlimited(s) ==
    \E i \in DOMAIN s.modifiers : unlimited_rejected(s.dice, s.modifiers[i])

\* the Reroll / Explode records of a list of ModifiedRolls
records(ms) == {ms[i].items : i \in DOMAIN ms}

all_records ==
    records(modified) \cup UNION {records(history[i].rolls) : i \in DOMAIN history}

----------------------------------------------------------------------------
(* C6 as claimed: the roll of a RollSpec whose modifier list holds         *)
(* RerollUnlimited t with t >= max, or ExplodeUnlimited t with t <= min,   *)
(* returns a ParamError, whatever the dice count and the earlier stages.   *)
C6_RejectedUnlimitedAlwaysFails ==
    (pc = "done" /\ has_rejected_unlimited(spec)) =>
        (result.kind = "Err" /\ result.error.kind = "ParamError")

----------------------------------------------------------------------------
(* C7 as claimed: when the roll rejects an unlimited reroll or explode     *)
(* that cannot end, no draw has been taken from the source in that call.   *)
C7_RejectedWithoutAnyDraw ==
    (Failed /\ result.error.text \in {RerollForeverText, ExplodeForeverText}) =>
        drawn = <<>>

----------------------------------------------------------------------------
(* C8 as claimed: the draws accumulated for one die under an unlimited     *)
(* reroll or explode never number more than MAX_NUMBER_OF_DICE, and no     *)
(* Reroll / Explode record longer than that is ever built or returned.     *)
C8_ChainWithinLimit ==
    /\ Len(new_rolls) <= MAX_NUMBER_OF_DICE
    /\ \A items \in all_records : Len(items) <= MAX_NUMBER_OF_DICE

----------------------------------------------------------------------------
(* C9 as claimed: while the initial batch is built and while a reroll or   *)
(* explode stage is applied across a batch, the rolls held by the growing  *)
(* collection never number more than MAX_NUMBER_OF_DICE before a           *)
(* ParamError is returned.                                                 *)
C9_GrowthWithinLimit ==
    /\ pc = "initial" => Len(rolls) <= MAX_NUMBER_OF_DICE
    /\ pc \in {"per_roll", "roll_until"} =>
          Len(batch_after(modified)) <= MAX_NUMBER_OF_DICE

----------------------------------------------------------------------------
(* C10: under TargetFailureDouble(t?, f?, d?) every roll of the final      *)
(* batch counts once: 2 if d is set and r >= d; else 1 if t is set and     *)
(* r >= t; else -1 if f is set and r <= f; else 0.  The total is the sum.  *)
C10_DoubleTargetFailurePriority ==
    (Succeeded /\ spec.aggregator.type = "TargetFailureDouble") =>
        LET a == spec.aggregator
            r == result.final_rolls
            doubles == {i \in DOMAIN r : a.d.some /\ r[i] >= a.d.value}
            singles == {i \in DOMAIN r \ doubles : a.t.some /\ r[i] >= a.t.value}
            fails   == {i \in DOMAIN r \ (doubles \cup singles) :
                            a.f.some /\ r[i] <= a.f.value}
        IN  result.total = 2 * Cardinality(doubles) + Cardinality(singles)
                               - Cardinality(fails)

\* a double threshold below the target threshold: the 3 counts 2, the 1 counts -1
C10_Witness ==
    /\ Succeeded
    /\ spec.aggregator = TargetFailureDouble(Some(3), Some(1), Some(2))
    /\ result.final_rolls = <<3, 1>>
    /\ result.total = 1

----------------------------------------------------------------------------
(* Readings of the total.                                                  *)

RECURSIVE seq_sum(_)
seq_sum(s) == IF s = <<>> THEN 0 ELSE Head(s) + seq_sum(Tail(s))

\* what one roll is worth under Sum and under TargetEnum
worth(aggregator, r) ==
    IF aggregator.type = "Sum" THEN r
    ELSE IF r \in aggregator.items THEN 1 ELSE 0

\* what one ModifiedRoll record contributes: nothing when dropped, only the
\* last replacement when rerolled, the original and every extra die when exploded
contribution(aggregator, m) ==
    CASE m.modifier = "None"    -> worth(aggregator, m.before)
      [] m.modifier = "Drop"    -> 0
      [] m.modifier = "Reroll"  -> worth(aggregator, m.items[Len(m.items)])
      [] m.modifier = "Explode" ->
            worth(aggregator, m.before)
              + seq_sum([i \in DOMAIN m.items |-> worth(aggregator, m.items[i])])

----------------------------------------------------------------------------
(* C11: the total of a successful roll under Sum or TargetEnum is the       *)
(* aggregator over the final batch only: a dropped roll and a replaced     *)
(* roll contribute nothing, an exploded extra die contributes like an      *)
(* original one; Sum adds the value of each final roll (Fudge as -1/0/+1)  *)
(* and TargetEnum(S) counts the final rolls whose value is in S.           *)
C11_TotalOverFinalBatch ==
    (Succeeded /\ spec.aggregator.type \in {"Sum", "TargetEnum"}) =>
        LET a == spec.aggregator
            h == result.history
            f == result.final_rolls
        IN  /\ a.type = "Sum" => result.total = seq_sum(f)
            /\ a.type = "TargetEnum" =>
                  result.total = Cardinality({i \in DOMAIN f : f[i] \in a.items})
            /\ h = <<>> =>
                  result.total =
                      seq_sum([i \in DOMAIN initial_batch |-> worth(a, initial_batch[i])])
            /\ h # <<>> =>
                  result.total =
                      seq_sum([i \in DOMAIN h[Len(h)].rolls |->
                                  contribution(a, h[Len(h)].rolls[i])])

\* two dice under TargetEnum {2}: the first is rerolled from 2 to 1 and
\* counts nothing, the second is rerolled from 1 to 2 and counts once
C11_Witness ==
    /\ Succeeded
    /\ spec.aggregator = TargetEnum({2})
    /\ spec.modifiers = <<[type |-> "RerollOnce", n |-> 2]>>
    /\ befores(result.history[1].rolls) = <<2, 1>>
    /\ result.final_rolls = <<1, 2>>
    /\ result.total = 1

----------------------------------------------------------------------------
(* Readings of a parse.                                                    *)

Parsed == cpc # "text" /\ command.ok

Rejected == cpc # "text" /\ ~command.ok

RejectedWith(kind, message) ==
    Rejected /\ command.error.kind = kind /\ command.error.text = message

\* the text is one dice term
is_dice_term(t) == Len(t.expr) = 1 /\ t.expr[1].rule = "dice" /\ ~t.repeat.some

\* the option pairs of the dice term that give the aggregator role `rules`
given(t, rules) == {i \in DOMAIN t.expr[1].options : t.expr[1].options[i].rule \in rules}

----------------------------------------------------------------------------
(* C12 as claimed: a dice term whose options give the target role twice    *)
(* (as a value or as an enum list), the failure role twice or the double   *)
(* role twice is rejected with a ParamError; and when the term parses,     *)
(* every aggregator option of the text is part of the aggregator: none was *)
(* replaced by a later one.                                                *)
C12_SecondAggregatorRejected ==
    (cpc # "text" /\ is_dice_term(input) /\ input.expr[1].sides = Digits(2)
        /\ input.expr[1].number_of_dice = Some(Digits(2))) =>
        LET options == input.expr[1].options
        IN  /\ (\E rules \in {{"target"}, {"failure"}, {"double_target"}} :
                    Cardinality(given(input, rules)) >= 2)
                  => Rejected /\ command.error.kind = "ParamError"
            /\ Parsed =>
                  LET a == command.value.expression.spec.aggregator
                  IN  \A i \in given(input, {"target", "failure", "double_target"}) :
                          CASE options[i].is_enum ->
                                  /\ a.type = "TargetEnum"
                                  /\ a.items = {options[i].items[j].n :
                                                    j \in DOMAIN options[i].items}
                            [] options[i].rule = "target" /\ ~options[i].is_enum ->
                                  a.type = "TargetFailureDouble"
                                      /\ a.t = Some(options[i].value.value.n)
                            [] options[i].rule = "failure" ->
                                  a.type = "TargetFailureDouble"
                                      /\ a.f = Some(options[i].value.value.n)
                            [] options[i].rule = "double_target" ->
                                  a.type = "TargetFailureDouble"
                                      /\ a.d = Some(options[i].value.value.n)

----------------------------------------------------------------------------
(* Readings of a repeated command and of a dice term.                      *)

RepeatedRollCountText == "Exceed maximum allowed number of dice during repeated roll count"

ParseLimitText == "Exceed maximum allowed number of dice during parse"

\* the number the count literal of the repeat denotes
repeat_literal == input.repeat.value.count.n

\* the number the count literal of the dice term denotes, 1 when omitted
dice_count_literal ==
    IF input.expr[1].number_of_dice.some THEN input.expr[1].number_of_dice.value.n ELSE 1

----------------------------------------------------------------------------
(* C15: every Command parsed from a text with a repeat has the count and   *)
(* the mode written, and the count lies in [1, MAX_NUMBER_OF_DICE]; a      *)
(* count of 0 is rejected with a ParamError, a count above the limit with  *)
(* the "repeated roll count" ParamError, a count that does not fit usize   *)
(* with a ParseError; 1 and the limit itself are accepted.                 *)
C15_RepeatCountInRange ==
    (cpc # "text" /\ input.repeat.some) =>
        /\ Parsed =>
              /\ command.value.repeat.some
              /\ command.value.repeat.value.count \in 1 .. MAX_NUMBER_OF_DICE
              /\ command.value.repeat.value.count = repeat_literal
              /\ command.value.repeat.value.mode = input.repeat.value.mode
        /\ repeat_literal = 0 =>
              RejectedWith("ParamError", "Can't repeat 0 times or negatively")
        /\ (repeat_literal > MAX_NUMBER_OF_DICE /\ repeat_literal <= UsizeMax) =>
              /\ RejectedWith("ParamError", RepeatedRollCountText)
              /\ command.error.args = <<MAX_NUMBER_OF_DICE>>
        /\ repeat_literal > UsizeMax => RejectedWith("ParseError", PosOverflow)
        /\ (repeat_literal \in 1 .. MAX_NUMBER_OF_DICE
                /\ input.expr \in {<<IntegerToken(FALSE, 1)>>,
                                   <<DicePairs(NoValue, Digits(2), <<>>)>>}) => Parsed

\* a sorted repeat of exactly the limit is accepted
C15_Witness ==
    /\ Parsed
    /\ input.repeat.some
    /\ command.value.repeat = Some(RepeatedCommand(MAX_NUMBER_OF_DICE, "Sort"))

----------------------------------------------------------------------------
(* C16: every RollSpec parsed from a dice term has a count of at most      *)
(* MAX_NUMBER_OF_DICE, the count written (1 when omitted) and, for basic   *)
(* dice, at least one side; a count above the limit is rejected with the   *)
(* "parse" ParamError and, the count being acceptable, a zero-sided die    *)
(* with the ParseError "number would be zero for non-zero type".           *)
C16_DiceCountAndSides ==
    (cpc # "text" /\ is_dice_term(input)) =>
        /\ Parsed =>
              LET s == command.value.expression.spec
              IN  /\ s.number_of_dice <= MAX_NUMBER_OF_DICE
                  /\ s.number_of_dice = dice_count_literal
                  /\ s.dice.kind = "Basic" => s.dice.sides >= 1
        /\ (dice_count_literal > MAX_NUMBER_OF_DICE /\ dice_count_literal <= UsizeMax) =>
              /\ RejectedWith("ParamError", ParseLimitText)
              /\ command.error.args = <<MAX_NUMBER_OF_DICE>>
        /\ (dice_count_literal <= MAX_NUMBER_OF_DICE /\ input.expr[1].sides = Digits(0)) =>
              RejectedWith("ParseError", Zero)

\* a die written without a count parses to one die
C16_Witness ==
    /\ Parsed
    /\ is_dice_term(input)
    /\ ~input.expr[1].number_of_dice.some
    /\ input.expr[1].sides = Digits(1)
    /\ command.value.expression.spec.number_of_dice = 1
    /\ command.value.expression.spec.dice = BasicDice(1)

----------------------------------------------------------------------------
(* C19: with a source whose every draw for `sides` lies in 1 .. sides,     *)
(* every roll recorded by dyn_roll (the batch, the `before` and the        *)
(* entries of every ModifiedRoll of the stage under construction and of    *)
(* the history, the list roll_until fills, the final batch) lies in        *)
(* [1, n] for BasicDice(n) and in {-1, 0, 1} for Fudge, and each roll is   *)
(* the draw itself for BasicDice(n), asked with n sides, and the draw      *)
(* minus 2 for Fudge, asked with 3 sides.                                  *)
C19_RecordedRollsInRange ==
    spec # [kind |-> "none"] =>
        LET range == IF spec.dice.kind = "Basic" THEN 1 .. spec.dice.sides ELSE {-1, 0, 1}
            in_range(s) == \A i \in DOMAIN s : s[i] \in range
            all_in_range(ms) ==
                \A i \in DOMAIN ms : ms[i].before \in range /\ in_range(ms[i].items)
        IN  /\ in_range(rolls)
            /\ in_range(new_rolls)
            /\ in_range(drawn)
            /\ all_in_range(modified)
            /\ \A i \in DOMAIN history : all_in_range(history[i].rolls)
            /\ result.kind = "Ok" =>
                  /\ in_range(result.final_rolls)
                  /\ \A i \in DOMAIN result.history : all_in_range(result.history[i].rolls)
            /\ Len(drawn) = Len(source)
            /\ \A i \in DOMAIN source :
                  /\ source[i].value \in 1 .. source[i].sides
                  /\ source[i].sides = IF spec.dice.kind = "Basic" THEN spec.dice.sides ELSE 3
                  /\ drawn[i] = IF spec.dice.kind = "Basic" THEN source[i].value
                                ELSE source[i].value - 2

\* a finished roll of Fudge dice whose history holds an exploded die, with
\* the lowest and the highest face among the rolls
C19_Witness ==
    /\ result.kind = "Ok"
    /\ spec.dice = Fudge
    /\ \E i \in DOMAIN result.history : \E j \in DOMAIN result.history[i].rolls :
          /\ result.history[i].rolls[j].modifier = "Explode"
          /\ result.history[i].rolls[j].before = 1
          /\ result.history[i].rolls[j].items # <<>>
    /\ \E i \in DOMAIN result.final_rolls : result.final_rolls[i] = -1
    /\ \E i \in DOMAIN source : source[i].value = 3

----------------------------------------------------------------------------
(* Readings of a rolled command.                                           *)

\* Command::roll_with_source returned Ok
Rolled == cpc = "rolled" /\ evaluated.kind = "Ok"

results == evaluated.value.expressions

\* each evaluation starts at the draw the one before it stopped at
chained(es) == \A i \in 1 .. Len(es) - 1 : es[i].to = es[i + 1].from

\* es are evaluations made one after the other, the first from the first
\* draw of the source
in_evaluation_order(es) == (es # <<>> => es[1].from = 0) /\ chained(es)

orderings(n) ==
    {p \in [1 .. n -> 1 .. n] : \A i, j \in 1 .. n : p[i] = p[j] => i = j}

\* e is what rolling the expression x gives: node for node the same shape,
\* constants with their value, dice whose draws were asked with their sides
RECURSIVE evaluation_of(_, _)
evaluation_of(e, x) ==
    /\ e.type = x.type
    /\ e.from <= e.to
    /\ CASE x.type = "Integer" ->
                e.value = x.value /\ e.total = f64_from_i64(x.value) /\ e.from = e.to
         [] x.type = "RollableFloat" ->
                e.value = x.value /\ e.total = x.value /\ e.from = e.to
         [] x.type = "BinaryExpression" ->
                e.op = x.op /\ evaluation_of(e.left, x.left) /\ evaluation_of(e.right, x.right)
         [] x.type = "BlockExpression" -> evaluation_of(e.inner, x.inner)
         [] x.type = "VariableReference" ->
                e.identifier = x.identifier /\ evaluation_of(e.inner, x.inner)
         [] x.type = "RollSpec" ->
                /\ e.dice = x.spec.dice
                /\ e.to - e.from >= x.spec.number_of_dice
                /\ \A i \in (e.from + 1) .. e.to : source[i].sides = x.spec.dice.sides

\* the signed numerator of a finite value
signed(x) == IF x.neg THEN 0 - x.num ELSE x.num

----------------------------------------------------------------------------
(* C13: rolling a Command with repeat (count, mode) evaluates the          *)
(* expression count times, the draws of each repetition before those of    *)
(* the next, and returns count results: in None and Sum mode in the order  *)
(* evaluated, in Sort mode a permutation of the evaluated results that     *)
(* ascends by total under f64::total_cmp.                                  *)
C13_RepeatEvaluatesInOrder ==
    /\ (cpc = "rolling" /\ command.value.repeat.some) =>
          /\ Len(expressions) <= command.value.repeat.value.count
          /\ in_evaluation_order(expressions)
          /\ \A i \in DOMAIN expressions :
                evaluation_of(expressions[i], command.value.expression)
    /\ (Rolled /\ command.value.repeat.some) =>
          LET n == command.value.repeat.value.count
              sorted == command.value.repeat.value.mode = "Sort"
          IN  /\ Len(results) = n
              /\ \A i \in 1 .. n : evaluation_of(results[i], command.value.expression)
              /\ \E p \in orderings(n) :
                    LET evaluated_order == [i \in 1 .. n |-> results[p[i]]]
                    IN  /\ in_evaluation_order(evaluated_order)
                        /\ evaluated_order[n].to = Len(source)
                        /\ ~sorted => \A i \in 1 .. n : p[i] = i
              /\ sorted => \A i \in 1 .. n - 1 :
                               total_cmp_le(results[i].total, results[i + 1].total)

\* a sorted repeat whose first result was not the first one evaluated
C13_Witness ==
    /\ Rolled
    /\ command.value.repeat.some
    /\ command.value.repeat.value.mode = "Sort"
    /\ Len(results) >= 2
    /\ results[1].from > 0
    /\ total_cmp_less(results[1].total, results[Len(results)].total)

----------------------------------------------------------------------------
(* C14: the total of an EvaluatedCommand is the total of the single        *)
(* expression when the command has no repeat, the f64 sum of the totals of *)
(* the repetitions, added in order to 0.0, in Sum mode, and None in Sort   *)
(* mode and in None mode, whatever the count.                              *)
C14_CommandTotal ==
    Rolled =>
        LET repeat == command.value.repeat
            t == evaluated.value.total
        IN  /\ ~repeat.some => t.some /\ t.value = results[1].total
            /\ (repeat.some /\ repeat.value.mode = "Sum") =>
                  /\ t.some
                  /\ t.value \in fold_totals(results)
                  /\ (\A i \in DOMAIN results :
                          results[i].total.class = "finite" /\ results[i].total.den = 1) =>
                        LET RECURSIVE sum(_)
                            sum(k) == IF k = 0 THEN 0
                                      ELSE sum(k - 1) + signed(results[k].total)
                            s == sum(Len(results))
                        IN  IF s > F64Max THEN t.value = Infinity(FALSE)
                            ELSE IF s < 0 - F64Max THEN t.value = Infinity(TRUE)
                            ELSE t.value.class = "finite" /\ t.value.den = 1
                                    /\ signed(t.value) = s
            /\ (repeat.some /\ repeat.value.mode \in {"Sort", "None"}) => ~t.some

\* a summed repeat of two different totals
C14_Witness ==
    /\ Rolled
    /\ command.value.repeat = Some(RepeatedCommand(2, "Sum"))
    /\ results[1].total = Finite(FALSE, 1, 1)
    /\ results[2].total = Finite(FALSE, 3, 1)
    /\ evaluated.value.total = Some(Finite(FALSE, 4, 1))

----------------------------------------------------------------------------
(* C18: an evaluated Binary node took the draws of its left operand, then  *)
(* those of its right operand, and nothing else, and its total is the      *)
(* operator applied to the totals of the two; an evaluated Block or        *)
(* variable reference has the total and exactly the draws of its inner     *)
(* expression.                                                             *)
RECURSIVE rolled_left_to_right(_)
rolled_left_to_right(e) ==
    CASE e.type = "BinaryExpression" ->
            /\ e.from = e.left.from
            /\ e.left.to = e.right.from
            /\ e.right.to = e.to
            /\ e.total \in BinaryOp_apply(e.op, e.left.total, e.right.total)
            /\ rolled_left_to_right(e.left)
            /\ rolled_left_to_right(e.right)
      [] e.type \in {"BlockExpression", "VariableReference"} ->
            /\ e.from = e.inner.from
            /\ e.to = e.inner.to
            /\ e.total = e.inner.total
            /\ rolled_left_to_right(e.inner)
      [] OTHER -> TRUE

C18_BinaryLeftBeforeRight ==
    /\ \A i \in DOMAIN values : rolled_left_to_right(values[i])
    /\ cpc \in {"rolling", "rolled"} =>
          \A i \in DOMAIN expressions :
              /\ rolled_left_to_right(expressions[i])
              /\ evaluation_of(expressions[i], command.value.expression)
    /\ Rolled =>
          \A i \in DOMAIN results :
              /\ rolled_left_to_right(results[i])
              /\ evaluation_of(results[i], command.value.expression)

\* d2 - d3 rolled 1 then 3: the total is -2
C18_Witness ==
    /\ Rolled
    /\ results[1].type = "BinaryExpression"
    /\ results[1].op = "Sub"
    /\ results[1].left.type = "RollSpec"
    /\ results[1].right.type = "RollSpec"
    /\ source = <<Draw(2, 1), Draw(3, 3)>>
    /\ results[1].total = Finite(TRUE, 2, 1)

----------------------------------------------------------------------------
(* C20: a text that references $name parses only if name is in the map     *)
(* given to the parse, and is otherwise rejected with the ParamError       *)
(* 'Reference to undefined variable "name"'; an evaluated reference is an  *)
(* evaluation of the expression the map held at the parse, whatever the    *)
(* map holds since, and its format_history is $name in Short verbosity and *)
(* ($name: inner) in Medium and Verbose.                                   *)
RECURSIVE referenced_names(_)
referenced_names(expr) ==
    UNION {CASE expr[i].rule = "variable" -> {expr[i].identifier}
             [] expr[i].rule = "block_expr" -> referenced_names(expr[i].inner)
             [] OTHER -> {} : i \in DOMAIN expr}

RECURSIVE references_resolved(_)
references_resolved(e) ==
    CASE e.type = "VariableReference" ->
            /\ evaluation_of(e.inner, Bound[e.identifier])
            /\ \A markdown \in BOOLEAN :
                  /\ format_history(e, markdown, "Short") = "$" \o e.identifier
                  /\ \A verbose \in {"Medium", "Verbose"} :
                        format_history(e, markdown, verbose) =
                            "($" \o e.identifier \o ": "
                                \o format_history(e.inner, markdown, verbose) \o ")"
            /\ references_resolved(e.inner)
      [] e.type = "BinaryExpression" ->
            references_resolved(e.left) /\ references_resolved(e.right)
      [] e.type = "BlockExpression" -> references_resolved(e.inner)
      [] OTHER -> TRUE

----------------------------------------------------------------------------
(* C17 as claimed: for every text that parses, the display of the parsed   *)
(* Command parses again, and the display of the re-parsed Command is the   *)
(* same text.                                                              *)
C17_DisplayRoundTrips ==
    /\ cpc # "unparsable"
    /\ cpc = "reshown" => reshown = shown

----------------------------------------------------------------------------
(* Readings of the draws of a per-roll stage.                              *)

\* the draws the records of one stage hold, die after die
RECURSIVE chain_draws(_)
chain_draws(ms) == IF ms = <<>> THEN <<>> ELSE Head(ms).items \o chain_draws(Tail(ms))

\* how many draws the call took before stage i of history h
RECURSIVE draws_before(_, _)
draws_before(h, i) ==
    IF i = 1 THEN spec.number_of_dice
    ELSE draws_before(h, i - 1) + Len(chain_draws(h[i - 1].rolls))

\* the part of the log of draws that was taken during stage i of history h
stage_draws(h, i) ==
    SubSeq(drawn, draws_before(h, i) + 1,
           draws_before(h, i) + Len(chain_draws(h[i].rolls)))

\* every element of s but the last
front(s) == SubSeq(s, 1, Len(s) - 1)

last(s) == s[Len(s)]

----------------------------------------------------------------------------
(* C21: in every recorded RerollUnlimited t stage, a die whose roll is > t *)
(* is recorded as None with no draw; every other die has a Reroll record   *)
(* that holds its successive draws in the order they were taken, each but  *)
(* the last <= t and the last > t, and after() is that last draw alone; so *)
(* every roll of the batch the stage produced is > t.                      *)
C21_RerollUnlimitedEndsAboveThreshold ==
    \A i \in DOMAIN history :
        history[i].modifier.type = "RerollUnlimited" =>
            LET t  == history[i].modifier.n
                ms == history[i].rolls
                b  == batch_after(ms)
            IN  /\ \A k \in DOMAIN ms :
                      IF ms[k].before > t
                      THEN ms[k] = ModifiedRoll(ms[k].before, "None", <<>>)
                      ELSE /\ ms[k].modifier = "Reroll"
                           /\ ms[k].items # <<>>
                           /\ \A j \in DOMAIN front(ms[k].items) : ms[k].items[j] <= t
                           /\ last(ms[k].items) > t
                           /\ after(ms[k]) = <<last(ms[k].items)>>
                /\ chain_draws(ms) = stage_draws(history, i)
                /\ Len(b) = Len(ms)
                /\ \A j \in DOMAIN b : b[j] > t

\* RerollUnlimited 1 on two d2: the first die shows 1, is drawn again as 1
\* and then as 2; the second shows 2 and is left alone
C21_Witness ==
    /\ Succeeded
    /\ spec.modifiers = <<[type |-> "RerollUnlimited", n |-> 1]>>
    /\ result.history[1].rolls =
          <<ModifiedRoll(1, "Reroll", <<1, 2>>), ModifiedRoll(2, "None", <<>>)>>
    /\ result.final_rolls = <<2, 2>>
    /\ drawn = <<1, 2, 1, 2>>

----------------------------------------------------------------------------
(* C22: under ExplodeUnlimited t, in every recorded stage and in the stage *)
(* being built, a die whose roll is < t is recorded as None with no draw;  *)
(* every other die has an Explode record that holds its successive draws   *)
(* in the order they were taken, each but the last >= t and the last < t,  *)
(* and after() is the original roll followed by all of these draws.        *)
explode_unlimited_record(t, m) ==
    IF m.before < t
    THEN m = ModifiedRoll(m.before, "None", <<>>)
    ELSE /\ m.modifier = "Explode"
         /\ m.items # <<>>
         /\ \A j \in DOMAIN front(m.items) : m.items[j] >= t
         /\ last(m.items) < t
         /\ after(m) = <<m.before>> \o m.items

C22_ExplodeUnlimitedEndsBelowThreshold ==
    /\ \A i \in DOMAIN history :
          history[i].modifier.type = "ExplodeUnlimited" =>
              /\ \A k \in DOMAIN history[i].rolls :
                    explode_unlimited_record(history[i].modifier.n, history[i].rolls[k])
              /\ chain_draws(history[i].rolls) = stage_draws(history, i)
    /\ (pc \in {"per_roll", "roll_until"}
            /\ spec.modifiers[stage].type = "ExplodeUnlimited") =>
          /\ \A k \in DOMAIN modified :
                explode_unlimited_record(spec.modifiers[stage].n, modified[k])
          /\ chain_draws(modified) \o new_rolls =
                SubSeq(drawn, draws_before(history, stage) + 1, Len(drawn))

\* ExplodeUnlimited 2 on one d2 that shows 2 and explodes into 2 and then 1
C22_Witness ==
    /\ Succeeded
    /\ spec.modifiers = <<[type |-> "ExplodeUnlimited", n |-> 2]>>
    /\ result.history[1].rolls = <<ModifiedRoll(2, "Explode", <<2, 1>>)>>
    /\ result.final_rolls = <<2, 2, 1>>
    /\ drawn = <<2, 2, 1>>

----------------------------------------------------------------------------
(* C23: under RerollOnce t a die with roll <= t, and under ExplodeOnce t a *)
(* die with roll >= t, takes exactly one draw and every other die takes    *)
(* none; the drawn value is recorded whatever it is: a replacement <= t is *)
(* the die's result and an extra die >= t is not followed by another.      *)
once_record(op, m) ==
    IF op.type = "RerollOnce"
    THEN IF m.before <= op.n
         THEN m.modifier = "Reroll" /\ Len(m.items) = 1 /\ after(m) = m.items
         ELSE m = ModifiedRoll(m.before, "None", <<>>)
    ELSE IF m.before >= op.n
         THEN m.modifier = "Explode" /\ Len(m.items) = 1
                 /\ after(m) = <<m.before, m.items[1]>>
         ELSE m = ModifiedRoll(m.before, "None", <<>>)

C23_OnceTakesOneDraw ==
    /\ \A i \in DOMAIN history :
          history[i].modifier.type \in {"RerollOnce", "ExplodeOnce"} =>
              LET op == history[i].modifier
                  ms == history[i].rolls
                  meeting == {k \in DOMAIN ms :
                                 IF op.type = "RerollOnce" THEN ms[k].before <= op.n
                                 ELSE ms[k].before >= op.n}
              IN  /\ \A k \in DOMAIN ms : once_record(op, ms[k])
                  /\ chain_draws(ms) = stage_draws(history, i)
                  /\ Len(stage_draws(history, i)) = Cardinality(meeting)
    /\ (pc = "per_roll" /\ spec.modifiers[stage].type \in {"RerollOnce", "ExplodeOnce"}) =>
          /\ \A k \in DOMAIN modified : once_record(spec.modifiers[stage], modified[k])
          /\ chain_draws(modified) =
                SubSeq(drawn, draws_before(history, stage) + 1, Len(drawn))

\* d2 dice showing 1 and 2 under RerollOnce 1 then ExplodeOnce 2: the 1 is
\* replaced by another 1, which stays; the 2 explodes into a 2, which does
\* not explode again
C23_Witness ==
    /\ Succeeded
    /\ spec.modifiers = <<[type |-> "RerollOnce", n |-> 1], [type |-> "ExplodeOnce", n |-> 2]>>
    /\ result.history[1].rolls =
          <<ModifiedRoll(1, "Reroll", <<1>>), ModifiedRoll(2, "None", <<>>)>>
    /\ result.history[2].rolls =
          <<ModifiedRoll(1, "None", <<>>), ModifiedRoll(2, "Explode", <<2>>)>>
    /\ result.final_rolls = <<1, 2, 2>>
    /\ drawn = <<1, 2, 1, 2>>

----------------------------------------------------------------------------
(* Readings of the batch a stage produced.                                 *)

\* the batch that came out of stage i of the history: what the next stage
\* was applied to, or the current batch when stage i is the latest
stage_output(i) ==
    IF i < Len(history) THEN befores(history[i + 1].rolls) ELSE rolls

\* how many rolls die k of a stage left in the batch that came out of it
left_by(m) ==
    CASE m.modifier = "Drop" -> 0
      [] m.modifier = "Explode" -> 1 + Len(m.items)
      [] OTHER -> 1

\* where the rolls of die k start in the batch that came out of the stage
RECURSIVE position(_, _)
position(ms, k) == IF k = 1 THEN 1 ELSE position(ms, k - 1) + left_by(ms[k - 1])

----------------------------------------------------------------------------
(* C24: every recorded stage changes the length of the batch in a fixed    *)
(* way: a reroll stage (once or unlimited) leaves it unchanged, KeepHi and *)
(* KeepLo n give exactly n rolls, DropHi and DropLo n give len - n, an     *)
(* ExplodeOnce stage gives between len and 2 * len; the dice that survive  *)
(* stand in the order they had, a rerolled die's last draw stands in the   *)
(* die's place, and the extras of an exploded die follow it immediately.   *)
C24_StageLengthAndOrder ==
    \A i \in DOMAIN history :
        \* after a stage that went over the dice limit the batch is that
        \* stage's, and the stage is not recorded
        (i = Len(history) /\ FailedWith(BatchAggregationText)) \/
        LET op  == history[i].modifier
            ms  == history[i].rolls
            len == Len(ms)
            b   == stage_output(i)
        IN  /\ op.type \in {"RerollOnce", "RerollUnlimited"} => Len(b) = len
            /\ op.type \in {"KeepHi", "KeepLo"} => Len(b) = op.n
            /\ op.type \in {"DropHi", "DropLo"} => Len(b) = len - op.n
            /\ op.type = "ExplodeOnce" => (len <= Len(b) /\ Len(b) <= 2 * len)
            /\ \A k \in DOMAIN ms :
                  LET p == position(ms, k)
                  IN  CASE ms[k].modifier = "None" -> b[p] = ms[k].before
                        [] ms[k].modifier = "Reroll" -> b[p] = last(ms[k].items)
                        [] ms[k].modifier = "Explode" ->
                              SubSeq(b, p, p + Len(ms[k].items)) = <<ms[k].before>> \o ms[k].items
                        [] ms[k].modifier = "Drop" -> TRUE
            /\ Len(b) = position(ms, len + 1) - 1

\* ExplodeOnce 2 on d2 dice showing 2 and 1, then DropLo 1: the extra 1 of
\* the first die stands right after it and before the second die; the drop
\* takes the earliest of the two lowest and leaves the others in their order
C24_Witness ==
    /\ Succeeded
    /\ spec.modifiers = <<[type |-> "ExplodeOnce", n |-> 2], [type |-> "DropLo", n |-> 1]>>
    /\ result.history[1].rolls =
          <<ModifiedRoll(2, "Explode", <<1>>), ModifiedRoll(1, "None", <<>>)>>
    /\ befores(result.history[2].rolls) = <<2, 1, 1>>
    /\ result.final_rolls = <<2, 1>>

----------------------------------------------------------------------------
(* Readings of the order of the draws.                                     *)

\* the draws the recorded stages of history h hold, stage after stage
RECURSIVE history_draws(_)
history_draws(h) ==
    IF h = <<>> THEN <<>>
    ELSE history_draws(front(h)) \o chain_draws(last(h).rolls)

\* s is the beginning of t
is_prefix(s, t) == Len(s) <= Len(t) /\ s = SubSeq(t, 1, Len(s))

\* the draws accounted for by the initial batch, the recorded stages, the
\* dice of the stage in progress that are done and the chain in progress
accounted_draws ==
    SubSeq(drawn, 1, IF pc = "initial" THEN Len(rolls) ELSE spec.number_of_dice)
        \o history_draws(history) \o chain_draws(modified) \o new_rolls

----------------------------------------------------------------------------
(* C25: the draws of a roll come in a fixed order.  The first count draws  *)
(* are the initial batch and nothing else is drawn before it is complete;  *)
(* then come the draws of the stages in the order of the modifier list;    *)
(* within a per-roll stage the dice are taken in batch order and the whole *)
(* chain of one die is drawn before the next die is looked at; a KeepOrDrop*)
(* stage and the aggregator draw nothing.  Every draw is one call of the   *)
(* source with the sides of the dice.                                      *)
C25_DrawOrder ==
    /\ Len(source) = Len(drawn)
    /\ \A i \in DOMAIN source :
          source[i].sides = spec.dice.sides /\ drawn[i] = dice_roll(spec.dice, source[i].value)
    /\ pc = "initial" => (drawn = rolls /\ Len(drawn) <= spec.number_of_dice)
    /\ pc # "initial" => Len(drawn) >= spec.number_of_dice
    /\ (pc # "initial" /\ history = <<>> /\ ~FailedWith(BatchAggregationText)) =>
          rolls = initial_batch
    /\ history # <<>> => befores(history[1].rolls) = initial_batch
    /\ \A i \in DOMAIN history :
          /\ history[i].modifier = spec.modifiers[i]
          /\ is_keep_or_drop(history[i].modifier) => chain_draws(history[i].rolls) = <<>>
    /\ pc \in {"per_roll", "roll_until"} => befores(modified) = SubSeq(rolls, 1, Len(modified))
    /\ IF FailedWith(BatchAggregationText)
       THEN is_prefix(accounted_draws, drawn)
       ELSE drawn = accounted_draws
    /\ Succeeded => Len(result.history) = Len(spec.modifiers)

\* ExplodeOnce 2 then RerollOnce 1 on two d2: the initial 2 and 1, the
\* extra 1 of the first die, then the replacements of the second and third
C25_Witness ==
    /\ Succeeded
    /\ spec.modifiers = <<[type |-> "ExplodeOnce", n |-> 2], [type |-> "RerollOnce", n |-> 1]>>
    /\ drawn = <<2, 1, 1, 2, 1>>
    /\ result.history[2].rolls =
          <<ModifiedRoll(2, "None", <<>>), ModifiedRoll(1, "Reroll", <<2>>),
            ModifiedRoll(1, "Reroll", <<1>>)>>
    /\ result.final_rolls = <<2, 2, 1>>

----------------------------------------------------------------------------
(* C26: no ModifiedRoll of a recorded stage, of the stage being built or   *)
(* of a returned history carries an empty Reroll or Explode list: a die    *)
(* for which an unlimited reroll or explode took no draw is recorded as    *)
(* None, so `items.last().unwrap()` of ModifiedRoll::format always finds   *)
(* an element.  None and Drop records carry no list.                       *)
well_formed(m) ==
    IF m.modifier \in {"Reroll", "Explode"} THEN Len(m.items) >= 1 ELSE m.items = <<>>

C26_NoEmptyRecord ==
    /\ \A i \in DOMAIN history : \A k \in DOMAIN history[i].rolls :
          well_formed(history[i].rolls[k])
    /\ \A k \in DOMAIN modified : well_formed(modified[k])
    /\ Succeeded =>
          \A i \in DOMAIN result.history : \A k \in DOMAIN result.history[i].rolls :
              /\ well_formed(result.history[i].rolls[k])
              /\ Len(ModifiedRoll_format(spec.dice, result.history[i].rolls[k], FALSE)) > 0

\* ExplodeUnlimited 0 on two Fudge dice: the first shows -1, takes no draw
\* and is recorded as None; the second shows +1 and explodes into -1
C26_Witness ==
    /\ Succeeded
    /\ spec.dice = Fudge
    /\ spec.modifiers = <<[type |-> "ExplodeUnlimited", n |-> 0]>>
    /\ result.history[1].rolls =
          <<ModifiedRoll(-1, "None", <<>>), ModifiedRoll(1, "Explode", <<-1>>)>>

----------------------------------------------------------------------------
(* Rolling a command to its end: roll_with_source is one sequential call,  *)
(* so a step that can be taken is taken.                                   *)

LiveCommand == InitCommand /\ [][NextCommand]_vars /\ WF_vars(NextCommand)

\* the longest chain of draws roll_until takes for one die: limit_dice lets
\* a chain of MAX_NUMBER_OF_DICE draws take one more
chain_limit == MAX_NUMBER_OF_DICE + 1

\* the most draws a stage takes on a batch of len rolls
stage_draw_limit(op, len) ==
    CASE op.type \in {"RerollOnce", "ExplodeOnce"} -> len
      [] op.type \in {"RerollUnlimited", "ExplodeUnlimited"} -> len * chain_limit
      [] OTHER -> 0

\* the longest batch a stage hands to the next one from a batch of len rolls
stage_length_limit(op, len) ==
    LET least(a, b) == IF a < b THEN a ELSE b
    IN  CASE op.type \in {"RerollOnce", "RerollUnlimited"} -> len
          [] op.type \in {"KeepHi", "KeepLo"} -> least(op.n, len)
          [] op.type \in {"DropHi", "DropLo"} -> IF op.n > len THEN 0 ELSE len - op.n
          [] op.type = "ExplodeOnce" -> least(2 * len, MAX_NUMBER_OF_DICE)
          [] op.type = "ExplodeUnlimited" ->
                least(len * (1 + chain_limit), MAX_NUMBER_OF_DICE)

RECURSIVE stages_draw_limit(_, _)
stages_draw_limit(modifiers, len) ==
    IF modifiers = <<>> THEN 0
    ELSE stage_draw_limit(Head(modifiers), len)
            + stages_draw_limit(Tail(modifiers), stage_length_limit(Head(modifiers), len))

\* the most draws one roll of the expression x takes
RECURSIVE expression_draw_limit(_)
expression_draw_limit(x) ==
    CASE x.type \in {"Integer", "RollableFloat"} -> 0
      [] x.type = "BinaryExpression" ->
            expression_draw_limit(x.left) + expression_draw_limit(x.right)
      [] x.type \in {"BlockExpression", "VariableReference"} -> expression_draw_limit(x.inner)
      [] x.type = "RollSpec" ->
            x.spec.number_of_dice + stages_draw_limit(x.spec.modifiers, x.spec.number_of_dice)

command_draw_limit(c) == repeat_count(c) * expression_draw_limit(c.expression)

RerollsText == "Exceed maximum allowed number of dice during rerolls"

----------------------------------------------------------------------------
(* C27: the roll of every parsed Command ends, whatever the source         *)
(* answers: it never takes more draws than the counts, the modifier lists  *)
(* and the dice limit of the command allow, and once started it returns a  *)
(* result or an error.                                                     *)
C27_RollTerminates ==
    /\ [](cpc \in {"rolling", "rolled"} =>
              Len(source) <= command_draw_limit(command.value))
    /\ (cpc = "parsed") ~> (cpc = "rolled" /\ evaluated.kind \in {"Ok", "Err"})

\* a d2 under an unlimited reroll of 1 against a source that answers 1 every
\* time: the roll ends with an error after the longest chain
C27_Witness ==
    /\ cpc = "rolled"
    /\ evaluated.kind = "Err"
    /\ evaluated.error.text = RerollsText
    /\ Len(source) = 1 + chain_limit
    /\ \A i \in DOMAIN source : source[i].value = 1

----------------------------------------------------------------------------
(* Readings of a formatted roll.                                           *)

\* the EvaluatedRollSpec a successful dyn_roll returned
rolled_spec == EvaluatedRollSpec(result, spec.dice, 0, Len(source))

\* a list of plain rolls as format_rolls writes it
plain_list(dice, rs, markdown) ==
    format_rolls([i \in DOMAIN rs |-> format_roll(dice, rs[i])], markdown)

\* one history stage: the list of its ModifiedRolls, then its modifier
stage_text(dice, s, markdown) ==
    format_rolls([i \in DOMAIN s.rolls |-> ModifiedRoll_format(dice, s.rolls[i], markdown)],
                 markdown)
        \o modifier_format(dice, s.modifier)

Separator == " " \o Arrow \o " "

\* texts joined by the separator, from the first to the last
RECURSIVE separated(_)
separated(texts) ==
    IF Len(texts) = 1 THEN texts[1]
    ELSE separated(front(texts)) \o Separator \o last(texts)

----------------------------------------------------------------------------
(* C28: the history of a rolled RollSpec with at least one modifier reads, *)
(* in Short verbosity, as exactly two lists: the initial batch and the     *)
(* final batch; in Medium as one list per history stage, each followed by  *)
(* its modifier, with no final list; in Verbose as the Medium text         *)
(* followed by the final batch.  With no modifier all three verbosities    *)
(* give the one list of the rolls.  Plain and markdown alike.              *)
C28_VerbosityLevels ==
    Succeeded =>
        \A markdown \in BOOLEAN :
            LET e       == rolled_spec
                h       == result.history
                final   == plain_list(spec.dice, result.final_rolls, markdown)
                short   == RollSpec_format_history(e, markdown, "Short")
                medium  == RollSpec_format_history(e, markdown, "Medium")
                verbose == RollSpec_format_history(e, markdown, "Verbose")
            IN  IF h = <<>>
                THEN /\ short = plain_list(spec.dice, initial_batch, markdown)
                     /\ medium = short
                     /\ verbose = short
                ELSE /\ short = plain_list(spec.dice, initial_batch, markdown)
                                   \o Separator \o final
                     /\ medium = separated([i \in DOMAIN h |->
                                              stage_text(spec.dice, h[i], markdown)])
                     /\ verbose = medium \o Separator \o final
                     /\ medium # short /\ verbose # short

\* two d2 showing 1 and 2 under K1: the three texts of the one stage
C28_Witness ==
    /\ Succeeded
    /\ spec.modifiers = <<KeepHi(1)>>
    /\ drawn = <<1, 2>>
    /\ RollSpec_format_history(rolled_spec, FALSE, "Short") = "[1, 2] -> [2]"
    /\ RollSpec_format_history(rolled_spec, FALSE, "Medium") = "[Drop(1), 2]K1"
    /\ RollSpec_format_history(rolled_spec, FALSE, "Verbose") = "[Drop(1), 2]K1 -> [2]"
    /\ RollSpec_format_history(rolled_spec, TRUE, "Verbose") = "\\[~~*1*~~, 2\\]K1 -> \\[2\\]"

----------------------------------------------------------------------------
(* The same Command rolled a second time against a new source that returns *)
(* what the first source returned, as the tests of lib.rs roll one parsed  *)
(* Command against one IteratorDiceRollSource after another.  Both rolls   *)
(* run in one build: an operation that the first roll computed gives the   *)
(* second roll the same value, the sign of a computed NaN included.        *)

Earlier(c, draws, outcome) ==
    [kind |-> "rolled", command |-> c, draws |-> draws, outcome |-> outcome]

\* the second `r.roll_with_source(&mut IteratorDiceRollSource { .. })`
RollAgain ==
    /\ cpc = "rolled"
    /\ earlier.kind = "none"
    /\ earlier' = Earlier(command, source, evaluated)
    /\ source' = <<>>
    /\ evaluated' = [kind |-> "none"]
    /\ cpc' = "rolling"
    /\ frames' = <<>>
    /\ values' = <<>>
    /\ expressions' = <<>>
    /\ UNCHANGED <<roll_vars, parse_vars>>

\* the new source has answered as the earlier one did, draw for draw
SameSource ==
    earlier.kind = "rolled" =>
        \A i \in DOMAIN source \cap DOMAIN earlier.draws :
            source[i].value = earlier.draws[i].value

\* the operations of the evaluated expression e: operator, operands, value
RECURSIVE operations(_)
operations(e) ==
    CASE e.type = "BinaryExpression" ->
            {[op |-> e.op, left |-> e.left.total, right |-> e.right.total, total |-> e.total]}
                \cup operations(e.left) \cup operations(e.right)
      [] e.type \in {"BlockExpression", "VariableReference"} -> operations(e.inner)
      [] OTHER -> {}

operations_of(es) == UNION {operations(es[i]) : i \in DOMAIN es}

totals(es) == [i \in DOMAIN es |-> es[i].total]

\* the operations computed so far by the roll in progress or just returned
operations_now ==
    operations_of(values) \cup operations_of(expressions)
        \cup (IF evaluated.kind = "Ok" THEN operations_of(evaluated.value.expressions) ELSE {})

\* an operation of the second roll on the operands of an operation of the
\* first has its value, and so has the sum of the same totals
SameBuild ==
    (earlier.kind = "rolled" /\ earlier.outcome.kind = "Ok") =>
        /\ \A m \in operations_now, n \in operations_of(earlier.outcome.value.expressions) :
              (m.op = n.op /\ m.left = n.left /\ m.right = n.right) => m.total = n.total
        /\ (/\ evaluated.kind = "Ok"
            /\ evaluated.value.repeat = earlier.outcome.value.repeat
            /\ ~(evaluated.value.repeat.some /\ evaluated.value.repeat.value.mode = "Sort")
            /\ totals(evaluated.value.expressions) = totals(earlier.outcome.value.expressions))
               => evaluated.value.total = earlier.outcome.value.total

NextReplay ==
    \/ NextCommand /\ SameSource' /\ SameBuild'
    \/ RollAgain

SpecReplay == InitCommand /\ [][NextReplay]_vars

----------------------------------------------------------------------------
----------------------------------------------------------------------------
(* Commands whose roll can fail with work still ahead of it: a sum whose   *)
(* left operand fails, dice whose first stage fails before a second, and   *)
(* three repetitions of a sum of such dice and a d3.                       *)

FailingDice(threshold) ==
    DicePairs(Some(Digits(1)), Digits(2),
              <<Option("i_reroll", Some(Digits(threshold))), Option("keep_hi", Some(Digits(1)))>>)

FailingTexts ==
    {Single(<<FailingDice(2), Operator("add"), Die(3)>>),
     Single(<<FailingDice(2)>>),
     Repeated(<<FailingDice(1), Operator("add"), Die(3)>>, "None", Digits(MAX_NUMBER_OF_DICE))}

InitFailure ==
    \E t \in RepeatedTexts \cup SingleTexts \cup FailingTexts :
        \/ StartParse(t, <<>>)
        \/ StartParse(t, Bound)

SpecFailure == InitFailure /\ [][NextCommand]_vars

\* dyn_roll has returned an Err to the expression_roll that called it
DiceFailed == Failed /\ frames # <<>> /\ top.step = "dice"

\* a BinaryExpression is waiting for its left operand
left_pending == \E i \in DOMAIN frames : frames[i].step = "left"

----------------------------------------------------------------------------
(* C30: a roll that fails returns the error alone and takes no draw after  *)
(* the failing step.  The history of a failed dyn_roll holds the stages    *)
(* before the failing one and no stage after it is applied; the Err goes   *)
(* to the caller of roll_with_source in one step that leaves the source    *)
(* as it is, abandons every call in progress (a BinaryExpression waiting   *)
(* for its left operand never rolls its right one) and every repetition    *)
(* still to come, and returns none of the results collected so far; after  *)
(* roll_with_source has returned nothing is drawn or evaluated.            *)
C30_FailureStopsTheRoll ==
    /\ [](Failed => Len(history) < Len(spec.modifiers))
    /\ []((cpc = "rolled" /\ evaluated.kind = "Err") =>
              /\ DOMAIN evaluated = {"kind", "error"}
              /\ frames = <<>> /\ values = <<>> /\ expressions = <<>>
              /\ pc = "idle")
    /\ []((cpc = "rolled" /\ evaluated.kind = "Err" /\ ~command.value.repeat.some) =>
              \A i \in DOMAIN source : source[i].sides = 2)
    /\ [][Failed => /\ source' = source
                    /\ cpc' = "rolled"
                    /\ evaluated' = Err(result.error)
                    /\ frames' = <<>>
                    /\ expressions' = <<>>]_vars
    /\ [][cpc # "rolled"]_vars

\* the second of three repetitions fails in the first of two stages of the
\* left operand of a sum, one result already collected
C30_Witness ==
    /\ DiceFailed
    /\ left_pending
    /\ history = <<>>
    /\ Len(spec.modifiers) = 2
    /\ Len(expressions) = 1
    /\ repeat_count(command.value) = MAX_NUMBER_OF_DICE
    /\ Len(source) > 2

====
